---- MODULE Spec2Model ----
(***************************************************************************)
(* A model of the handson-blender-scripts repository: a gallery of         *)
(* independent Blender automation scripts (src/scripts/handson_0NN.py).    *)
(*                                                                         *)
(* The module holds several sub-models, each with its own variables and    *)
(* its own specification:                                                  *)
(*   SpecRuns     repeated runs of one script against one output directory *)
(*                (output backup, render, top-level error handling)        *)
(*   SpecLod      handson_007: LOD generation and update_lod               *)
(*   SpecTree     handson_006: the recursion of create_branch              *)
(*   SpecChild    handson_006: the direction of one child branch           *)
(*   SpecBuilding handson_025: window painting in create_building          *)
(*   SpecCamo     handson_014: palette index in apply_vertex_paint         *)
(* A specification leaves the variables of the other sub-models pinned.    *)
(***************************************************************************)
EXTENDS Integers, Sequences, FiniteSets, TLC

VARIABLES
    \* ---- runs of one script against one output directory
    script,     \* the script being run (fixed for a behaviour)
    clock,      \* wall clock, in ticks of 1/TicksPerSecond second
    fs,         \* the output directory: path -> 0 (absent) or the run that wrote it
    pc,         \* 0: no run in progress; k: about to execute phase k of the run
    run,        \* number of runs started so far
    outcome,    \* run -> "none" | "ok" | "failed"
    console,    \* messages the script's own handler printed in the current run
    escaped,    \* the current run ended with an exception leaving the script
    raised,     \* the exception text raised in the current run, or NoExc
    raisedIn,   \* the phase that raised it, or NoExc
    clobbered,  \* some backup rename replaced a file that already existed
    \* ---- handson_007: level-of-detail switching
    lodPc,        \* position in main()
    lodSettings,  \* the (ratio, switch distance) list handed to generate_lod_levels
    sceneCamera,  \* location of scene.camera, or NoCamera
    TARGET,       \* the high-detail object, or NoObject
    LOD_OBJECTS,  \* sequence of <<object, threshold>>
    hide,         \* object -> [viewport, render]: hide_viewport and hide_render
    chosen,       \* the object the last update_lod made visible, or NoObject
    \* ---- handson_006: the recursion of create_branch
    treePc,       \* "init", "running" (inside the root call) or "done"
    startDepth,   \* the depth argument of the root call
    stack,        \* the active calls of create_branch, the innermost last
    cylinders,    \* number of cylinder objects added to the scene
    spawned,      \* number of recursive calls made so far
    rootBranches, \* num_branches drawn by the root call, 0 when it drew none
    \* ---- handson_006: the direction of one child branch
    childPc,        \* "loop": about to draw for a child; "rotated": new_direction computed
    childLevel,     \* number of recursive calls between main() and the current call
    direction,      \* the direction argument: <<integer vector, denominator>>
    angle,          \* the drawn angle: <<cos numerator, sin numerator, denominator>>
    rand_vec,       \* the drawn random vector, in units of 1/5
    perp,           \* the rotation axis after perp.normalize(): <<vector, denominator>>
    new_direction,  \* the direction handed to the recursive call: <<vector, denominator>>
    \* ---- handson_025: window painting in create_building
    bldPc,               \* "loop" while the polygons are painted, then "material"
    polygons,            \* polygon -> normal.z, in hundredths
    polyIdx,             \* the polygon the for loop is at
    window_probability,  \* polygon -> the value drawn for it, or NoDraw
    color_layer,         \* polygon -> loop -> colour written (hundredths), or NoColor
    \* ---- handson_014: palette index in apply_vertex_paint
    camoPc,     \* "loop" while the loops are painted, then "painted"
    noise_val,  \* loop -> numerator of its noise value (denominator NoiseDen)
    color_idx,  \* loop -> the palette index computed for it
    \* ---- scene preparation of a script, up to the render
    sceneScript,      \* the script being run (fixed for a behaviour)
    scenePc,          \* the step of SceneSteps(sceneScript) about to run
    initial_objects,  \* the objects the scene held before the script ran
    scene_objects,    \* bpy.context.scene.objects, a set of object records
    scene_camera,     \* scene.camera: the id of an object, or None
    designated,       \* the camera the script created or looked up, or None
    started,          \* something of the new scene has been created
    lateDeleted,      \* the objects removed after the construction started
    render_camera,    \* scene.camera when render.render was invoked, or NotRendered
    \* ---- handson_010: node group and material constructors
    node_groups,  \* bpy.data.node_groups: sequence of [name, interface, nodes, links]
    materials,    \* bpy.data.materials: sequence of [name, interface, nodes, links]
    nodeCalls,     \* constructor -> number of calls made so far
    \* ---- handson_023: assemble_totem_pole
    totemPc,     \* number of statements of assemble_totem_pole executed
    totemConfig, \* the depths of Config, in 1/100 units
    totem,        \* part -> [parent, location] or NoPart
    \* ---- handson_019: the follow-path animation
    pathPc,         \* position in main: curve, follower, settings, render, done
    path_duration,  \* curve_data.path_duration
    offset_keys,    \* keyframes of constraint.offset_factor: set of <<frame, value>>
    interpolation,  \* interpolation new keyframes get (a user preference)
    frame_range,    \* <<scene.frame_start, scene.frame_end>>
    frame_step,     \* scene.frame_step (left as the scene had it)
    frame_current,  \* the frame being rendered
    firstRendered,  \* the first frame rendered, 0 before
    sampled,        \* offset_factor at frame_current, <<numerator, denominator>>
    lastSampled,     \* offset_factor at the frame rendered before
    \* ---- handson_024: the sine displacement of the cylinder's vertices
    wavePc,    \* number of vertices the loop has visited
    rest_co,   \* vertex -> co before the loop, in 1/10000 units
    co,         \* vertex -> co now
    \* ---- handson_008: the two array modifiers of the base cube
    arrPc,        \* position in main
    arrPrior,     \* the objects of the scene before the script ran
    arrObjects,   \* the objects of the scene: set of <<name, type>>
    modifiers,    \* BaseCube.modifiers: sequence of array modifiers
    instances,     \* cube origins of the evaluated mesh at render time
    \* ---- handson_016: the subdivision of the star plane
    starPc,       \* "create" before create_starry_sky subdivides, "done" after
    starCount,    \* the module's num_stars
    number_cuts_used,  \* the number_cuts passed to mesh.subdivide, -1 before
    \* ---- handson_023: ambient occlusion and the render engine
    aoPc,          \* position in the setup steps of full_main
    configEngine,  \* config.render_engine
    priorEngine,   \* scene.render.engine before the script ran
    sceneEngine,   \* scene.render.engine
    eevee,         \* scene.eevee: [use_gtao, gtao_distance], distance in tenths
    aoApplied,      \* the two assignments of setup_ambient_occlusion were executed
    \* ---- handson_017: the execution-time warning of main
    timerPc,      \* the statement of main about to run, "done" after it
    now,          \* time.time(), in whole seconds
    start_time,   \* main's start_time
    end_time,     \* main's end_time, NotTimed before it is taken
    renderCalls,  \* calls of render_scene started
    renderDone,   \* calls of render_scene that returned
    timerConsole,  \* what main printed: subset of {"error", "time", "warning"}
    \* ---- handson_025: setup_render_settings
    rsPc,          \* the statement of setup_render_settings about to run
    rsSupported,   \* the optional settings the host supports
    rsAttempted,   \* the optional settings reached so far
    rsApplied,     \* the optional settings assigned
    rsConsole,     \* the settings a "Could not set" note was printed for
    view_settings, \* [exposure, gamma] of scene.view_settings, in tenths
    rsRaised,       \* an exception left setup_render_settings
    \* ---- handson_023: the world nodes and the environment texture
    envPc,       \* the statement about to run
    envRun,      \* the number of the run of the script in this Blender session
    envFile,     \* os.path.exists(config.environment_texture_path)
    envLoads,    \* bpy.data.images.load succeeds on that file
    worldNodes,  \* nodes of the world's node tree: sequence of [type, image]
    worldLinks,  \* links of the tree: set of <<from node, to node>>
    envConsole,  \* the load error was printed
    envRaised,    \* an exception left setup_environment_texture
    \* ---- handson_019: the materials of Plane, Cube and Sphere
    matObjects,    \* the objects of those names that bpy.data.objects holds
    matData,       \* bpy.data.materials: set of [name, suffix]
    matSlots,      \* obj.data.materials of each object: sequence of materials
    matCalls       \* calls of add_materials_to_objects so far

runVars == <<script, clock, fs, pc, run, outcome, console, escaped, raised, raisedIn, clobbered>>

lodVars == <<lodPc, lodSettings, sceneCamera, TARGET, LOD_OBJECTS, hide, chosen>>

treeVars == <<treePc, startDepth, stack, cylinders, spawned, rootBranches>>

childVars == <<childPc, childLevel, direction, angle, rand_vec, perp, new_direction>>

bldVars == <<bldPc, polygons, polyIdx, window_probability, color_layer>>

camoVars == <<camoPc, noise_val, color_idx>>

totemVars == <<totemPc, totemConfig, totem>>

pathVars ==
    <<pathPc, path_duration, offset_keys, interpolation, frame_range, frame_step,
      frame_current, firstRendered, sampled, lastSampled>>

waveVars == <<wavePc, rest_co, co>>

arrVars == <<arrPc, arrPrior, arrObjects, modifiers, instances>>

starVars == <<starPc, starCount, number_cuts_used>>

aoVars == <<aoPc, configEngine, priorEngine, sceneEngine, eevee, aoApplied>>

timerVars == <<timerPc, now, start_time, end_time, renderCalls, renderDone, timerConsole>>

rsVars == <<rsPc, rsSupported, rsAttempted, rsApplied, rsConsole, view_settings, rsRaised>>

envVars == <<envPc, envRun, envFile, envLoads, worldNodes, worldLinks, envConsole, envRaised>>

matVars == <<matObjects, matData, matSlots, matCalls>>

nodeVars == <<node_groups, materials, nodeCalls>>

sceneVars == <<sceneScript, scenePc, initial_objects, scene_objects, scene_camera, designated,
               started, lateDeleted, render_camera>>

vars == <<runVars, lodVars, treeVars, childVars, bldVars, camoVars, sceneVars, nodeVars,
    totemVars, pathVars, waveVars, arrVars, starVars, aoVars, timerVars, rsVars,
    envVars, matVars>>

\* The variables a sub-model leaves alone: those of all the others.
notRuns == <<lodVars, treeVars, childVars, bldVars, camoVars, sceneVars, nodeVars, totemVars,
    pathVars, waveVars, arrVars, starVars, aoVars, timerVars, rsVars, envVars, matVars>>
notLod == <<runVars, treeVars, childVars, bldVars, camoVars, sceneVars, nodeVars, totemVars,
    pathVars, waveVars, arrVars, starVars, aoVars, timerVars, rsVars, envVars, matVars>>
notTree == <<runVars, lodVars, childVars, bldVars, camoVars, sceneVars, nodeVars, totemVars,
    pathVars, waveVars, arrVars, starVars, aoVars, timerVars, rsVars, envVars, matVars>>
notChild == <<runVars, lodVars, treeVars, bldVars, camoVars, sceneVars, nodeVars, totemVars,
    pathVars, waveVars, arrVars, starVars, aoVars, timerVars, rsVars, envVars, matVars>>
notBld == <<runVars, lodVars, treeVars, childVars, camoVars, sceneVars, nodeVars, totemVars,
    pathVars, waveVars, arrVars, starVars, aoVars, timerVars, rsVars, envVars, matVars>>
notScene == <<runVars, lodVars, treeVars, childVars, bldVars, camoVars, nodeVars, totemVars,
    pathVars, waveVars, arrVars, starVars, aoVars, timerVars, rsVars, envVars, matVars>>
notNodes == <<runVars, lodVars, treeVars, childVars, bldVars, camoVars, sceneVars, totemVars,
    pathVars, waveVars, arrVars, starVars, aoVars, timerVars, rsVars, envVars, matVars>>
notTotem == <<runVars, lodVars, treeVars, childVars, bldVars, camoVars, sceneVars, nodeVars,
    pathVars, waveVars, arrVars, starVars, aoVars, timerVars, rsVars, envVars, matVars>>
notPath == <<runVars, lodVars, treeVars, childVars, bldVars, camoVars, sceneVars, nodeVars,
    totemVars, waveVars, arrVars, starVars, aoVars, timerVars, rsVars, envVars, matVars>>
notWave == <<runVars, lodVars, treeVars, childVars, bldVars, camoVars, sceneVars, nodeVars,
    totemVars, pathVars, arrVars, starVars, aoVars, timerVars, rsVars, envVars, matVars>>
notArr == <<runVars, lodVars, treeVars, childVars, bldVars, camoVars, sceneVars, nodeVars,
    totemVars, pathVars, waveVars, starVars, aoVars, timerVars, rsVars, envVars, matVars>>
notStar == <<runVars, lodVars, treeVars, childVars, bldVars, camoVars, sceneVars, nodeVars,
    totemVars, pathVars, waveVars, arrVars, aoVars, timerVars, rsVars, envVars, matVars>>
notAo == <<runVars, lodVars, treeVars, childVars, bldVars, camoVars, sceneVars, nodeVars,
    totemVars, pathVars, waveVars, arrVars, starVars, timerVars, rsVars, envVars,
    matVars>>
notTimer == <<runVars, lodVars, treeVars, childVars, bldVars, camoVars, sceneVars, nodeVars,
    totemVars, pathVars, waveVars, arrVars, starVars, aoVars, rsVars, envVars, matVars>>
notRs == <<runVars, lodVars, treeVars, childVars, bldVars, camoVars, sceneVars, nodeVars,
    totemVars, pathVars, waveVars, arrVars, starVars, aoVars, timerVars, envVars,
    matVars>>
notEnv == <<runVars, lodVars, treeVars, childVars, bldVars, camoVars, sceneVars, nodeVars,
    totemVars, pathVars, waveVars, arrVars, starVars, aoVars, timerVars, rsVars, matVars>>
notMat == <<runVars, lodVars, treeVars, childVars, bldVars, camoVars, sceneVars, nodeVars,
    totemVars, pathVars, waveVars, arrVars, starVars, aoVars, timerVars, rsVars, envVars>>
notCamo == <<runVars, lodVars, treeVars, childVars, bldVars, sceneVars, nodeVars, totemVars,
    pathVars, waveVars, arrVars, starVars, aoVars, timerVars, rsVars, envVars, matVars>>

\* ------------------------------------------------------------------------
\* Bounds of the model
MaxRuns == 3
MaxClock == 3
TicksPerSecond == 2
MaxLods == 3
MaxDepth == 5
MaxLevel == 1
MaxDen == 25
NumPolygons == 2
NoiseDen == 8
NumLoops == 3
MaxCalls == 3
MaxSeconds == 12
MaxStars == 60
NumVertices == 2

\* ------------------------------------------------------------------------
\* Scripts and what each does with its output and with exceptions

NoBackupScripts ==
    {"handson_001", "handson_002", "handson_003", "handson_004", "handson_006",
     "handson_007", "handson_008", "handson_009", "handson_010", "handson_011",
     "handson_012", "handson_013"}

StampedNameScripts == {"handson_014"}

RenameScripts ==
    {"handson_015", "handson_016", "handson_017", "handson_018", "handson_019",
     "handson_020", "handson_021", "handson_022", "handson_023", "handson_024",
     "handson_025"}

Scripts == NoBackupScripts \cup StampedNameScripts \cup RenameScripts

\* How a script treats a same-named output of an earlier run.
BackupKind(s) ==
    IF s \in RenameScripts THEN "rename"
    ELSE IF s \in StampedNameScripts THEN "stamped_name"
    ELSE "none"

\* The order of the steps of one run.
Phases(s) ==
    CASE s \in {"handson_015", "handson_017", "handson_019", "handson_021", "handson_022"}
            -> <<"backup", "scene", "render">>
      [] s = "handson_016"
            -> <<"backup", "scene", "save_temp", "render", "remove_temp">>
      [] s \in {"handson_018", "handson_020", "handson_023", "handson_024", "handson_025"}
            -> <<"scene", "backup", "render">>
      [] OTHER
            -> <<"scene", "render">>

\* Faulty variant of Handler: handson_014's main() lacks its try/except.
HandlerNoTry14(s) ==
    CASE s \in {"handson_001", "handson_002", "handson_003", "handson_004",
                "handson_006", "handson_007", "handson_008", "handson_009"} -> "print"
      [] s \in {"handson_010", "handson_011", "handson_012", "handson_013"} -> "print_raise"
      [] s = "handson_017" -> "print_return"
      [] OTHER -> "none"

\* The top-level exception handling of a script:
\*   "print"        try: main() except Exception as e: print(... e)
\*   "print_raise"  main() catches, prints the text and re-raises
\*   "print_return" handson_017: the try block starts after the output backup
\*   "none"         no handler at all
Handler(s) ==
    CASE s \in {"handson_001", "handson_002", "handson_003", "handson_004",
                "handson_006", "handson_007", "handson_008", "handson_009"} -> "print"
      [] s \in {"handson_010", "handson_011", "handson_012", "handson_013",
                "handson_014"} -> "print_raise"
      [] s = "handson_017" -> "print_return"
      [] OTHER -> "none"

\* Whether an exception raised in phase ph is caught by the script's handler.
Covered(s, ph) ==
    CASE Handler(s) \in {"print", "print_raise"} -> TRUE
      [] Handler(s) = "print_return" -> ph # "backup"
      [] OTHER -> FALSE

\* ------------------------------------------------------------------------
\* Paths of the output directory: <<base, suffix>>

NoSuffix == -1
NoExc == "none"
ExcTexts == {"RuntimeError: render failed", "OSError: permission denied"}

\* strftime("%Y%m%d%H%M%S") and int(time.time()): the clock cut to whole seconds.
Timestamp(c) == c \div TicksPerSecond

Stamps == 0 .. Timestamp(MaxClock)

OutFixed == <<"out", NoSuffix>>
TempBlend == <<"temp", NoSuffix>>

\* The file the render writes: a fixed name, or in handson_014 a name
\* carrying the time of the run.
OutputPath(s, c) ==
    IF BackupKind(s) = "stamped_name" THEN <<"out", Timestamp(c)>> ELSE OutFixed

\* Faulty variant of BackupPath: the backup path is the output path itself.
BackupPathSame(s, c) == OutputPath(s, c)

\* The path an existing output is renamed to: the output name with the
\* timestamp of the moment of the backup added to it.
BackupPath(s, c) == <<"bak", Timestamp(c)>>

Paths ==
    {OutFixed, TempBlend} \cup {<<"out", t>> : t \in Stamps} \cup {<<"bak", t>> : t \in Stamps}

\* Faulty variant of Rename: the file is removed from src and written nowhere.
RenameDropping(f, src, dst) == [f EXCEPT ![src] = 0]

\* os.rename / shutil.move of a file onto dst (POSIX: an existing dst is replaced).
Rename(f, src, dst) ==
    IF src = dst THEN f ELSE [f EXCEPT ![dst] = f[src], ![src] = 0]

CurPhase == Phases(script)[pc]

Running == pc \in 1 .. Len(Phases(script))

\* ------------------------------------------------------------------------
\* Actions of a run

RunsInit ==
    /\ script \in Scripts
    /\ clock = 0
    /\ fs = [p \in Paths |-> 0]
    /\ pc = 0
    /\ run = 0
    /\ outcome = [r \in 1 .. MaxRuns |-> "none"]
    /\ console = {}
    /\ escaped = FALSE
    /\ raised = NoExc
    /\ raisedIn = NoExc
    /\ clobbered = FALSE

\* Time passes (between runs and during a run).
Tick ==
    /\ clock < MaxClock
    /\ clock' = clock + 1
    /\ UNCHANGED <<script, fs, pc, run, outcome, console, escaped, raised, raisedIn, clobbered>>
    /\ UNCHANGED notRuns

\* blender --background --python <script>
StartRun ==
    /\ pc = 0
    /\ run < MaxRuns
    /\ run' = run + 1
    /\ pc' = 1
    /\ console' = {}
    /\ escaped' = FALSE
    /\ raised' = NoExc
    /\ raisedIn' = NoExc
    /\ UNCHANGED <<script, clock, fs, outcome, clobbered>>
    /\ UNCHANGED notRuns

\* Scene clearing and construction: no effect on the output directory.
StepScene ==
    /\ Running
    /\ CurPhase = "scene"
    /\ pc' = pc + 1
    /\ UNCHANGED <<script, clock, fs, run, outcome, console, escaped, raised, raisedIn, clobbered>>
    /\ UNCHANGED notRuns

\* backup_existing_file / prepare_output_directory / get_output_filepath:
\* if os.path.exists(filepath): rename it to the timestamped backup path.
StepBackup ==
    /\ Running
    /\ CurPhase = "backup"
    /\ LET src == OutputPath(script, clock)
           dst == BackupPath(script, clock)
       IN  IF fs[src] # 0
           THEN /\ fs' = Rename(fs, src, dst)
                /\ clobbered' = (clobbered \/ (dst # src /\ fs[dst] # 0))
           ELSE UNCHANGED <<fs, clobbered>>
    /\ pc' = pc + 1
    /\ UNCHANGED <<script, clock, run, outcome, console, escaped, raised, raisedIn>>
    /\ UNCHANGED notRuns

\* handson_016: bpy.ops.wm.save_mainfile(filepath="temp.blend")
StepSaveTemp ==
    /\ Running
    /\ CurPhase = "save_temp"
    /\ fs' = [fs EXCEPT ![TempBlend] = run]
    /\ pc' = pc + 1
    /\ UNCHANGED <<script, clock, run, outcome, console, escaped, raised, raisedIn, clobbered>>
    /\ UNCHANGED notRuns

\* bpy.ops.render.render(write_still=True) / (animation=True): writes
\* scene.render.filepath, replacing whatever is there.
StepRender ==
    /\ Running
    /\ CurPhase = "render"
    /\ fs' = [fs EXCEPT ![OutputPath(script, clock)] = run]
    /\ pc' = pc + 1
    /\ UNCHANGED <<script, clock, run, outcome, console, escaped, raised, raisedIn, clobbered>>
    /\ UNCHANGED notRuns

\* handson_016: os.remove("temp.blend")
StepRemoveTemp ==
    /\ Running
    /\ CurPhase = "remove_temp"
    /\ fs' = [fs EXCEPT ![TempBlend] = 0]
    /\ pc' = pc + 1
    /\ UNCHANGED <<script, clock, run, outcome, console, escaped, raised, raisedIn, clobbered>>
    /\ UNCHANGED notRuns

\* The script body has run to its end.
Finish ==
    /\ pc = Len(Phases(script)) + 1
    /\ pc' = 0
    /\ outcome' = [outcome EXCEPT ![run] = "ok"]
    /\ UNCHANGED <<script, clock, fs, run, console, escaped, raised, raisedIn, clobbered>>
    /\ UNCHANGED notRuns

\* The step about to run raises an exception instead of completing.
Raise ==
    /\ Running
    /\ \E e \in ExcTexts :
        /\ raised' = e
        /\ raisedIn' = CurPhase
        /\ IF Covered(script, CurPhase)
           THEN /\ console' = console \cup {<<"error", e>>}
                /\ escaped' = (Handler(script) = "print_raise")
           ELSE /\ console' = console
                /\ escaped' = TRUE
    /\ pc' = 0
    /\ outcome' = [outcome EXCEPT ![run] = "failed"]
    /\ UNCHANGED <<script, clock, fs, run, clobbered>>
    /\ UNCHANGED notRuns

RunsNext ==
    \/ Tick
    \/ StartRun
    \/ StepScene
    \/ StepBackup
    \/ StepSaveTemp
    \/ StepRender
    \/ StepRemoveTemp
    \/ Finish
    \/ Raise

\* ========================================================================
\* handson_007: automatic LOD generation and switching

NoObject == 0
NoCamera == <<>>
TargetObject == 1

\* main(): lod_settings = [(0.5, 10.0), (0.25, 20.0), (0.1, 40.0)],
\* written <<ratio in percent, switch distance>>.
MainLodSettings == <<(<<50, 10>>), (<<25, 20>>), (<<10, 40>>)>>

\* The settings tried: those of main(), and every list of at most MaxLods
\* entries taken from these pairs (equal and zero thresholds included).
LodSettingChoices == {<<50, 10>>, <<25, 20>>, <<10, 40>>, <<25, 10>>, <<10, 0>>}

LodSettingLists ==
    {MainLodSettings} \cup UNION {[1 .. n -> LodSettingChoices] : n \in 0 .. MaxLods}

\* setup_camera_and_light(): camera_add(location=(10, -10, 10))
MainCameraLocation == <<10, -10, 10>>

\* primitive_uv_sphere_add(location=(0, 0, 0))
TargetLocation == <<0, 0, 0>>

\* Camera locations tried after the one of main(): distances 0, 5, 10, 15,
\* 20 (twice), 39 and 45 from the target.
CameraLocations ==
    {MainCameraLocation, <<0, 0, 0>>, <<5, 0, 0>>, <<0, -10, 0>>, <<0, 0, 15>>,
     <<20, 0, 0>>, <<12, 16, 0>>, <<39, 0, 0>>, <<0, 45, 0>>}

VecSub(a, b) == <<a[1] - b[1], a[2] - b[2], a[3] - b[3]>>

LengthSq(v) == v[1] * v[1] + v[2] * v[2] + v[3] * v[3]

\* Faulty variant of DistanceAtLeast: the boundary is exclusive.
DistanceAbove(v, threshold) ==
    threshold < 0 \/ LengthSq(v) > threshold * threshold

\* distance >= threshold, for distance = v.length (compared on the squares).
DistanceAtLeast(v, threshold) ==
    threshold <= 0 \/ LengthSq(v) >= threshold * threshold

\* Faulty variant of SortByThreshold: the levels are left in the order given.
SortByThresholdNot(levels) == levels

\* sorted(levels, key=lambda x: x[1]): a stable sort by threshold.
RECURSIVE InsertByThreshold(_, _)
InsertByThreshold(sorted, e) ==
    IF sorted = <<>> THEN <<e>>
    ELSE IF sorted[Len(sorted)][2] <= e[2] THEN Append(sorted, e)
    ELSE Append(InsertByThreshold(SubSeq(sorted, 1, Len(sorted) - 1), e),
                sorted[Len(sorted)])

RECURSIVE SortByThreshold(_)
SortByThreshold(levels) ==
    IF levels = <<>> THEN <<>>
    ELSE InsertByThreshold(SortByThreshold(SubSeq(levels, 1, Len(levels) - 1)),
                           levels[Len(levels)])

\* Faulty variant of ChooseLod: the loop stops at the first level.
ChooseLodFirst(sorted, v, sofar) ==
    IF sorted = <<>> THEN sofar
    ELSE IF DistanceAtLeast(v, Head(sorted)[2]) THEN Head(sorted)[1] ELSE sofar

\* chosen = TARGET; for obj, threshold in sorted(...): if distance >= threshold: chosen = obj
RECURSIVE ChooseLod(_, _, _)
ChooseLod(sorted, v, sofar) ==
    IF sorted = <<>> THEN sofar
    ELSE ChooseLod(Tail(sorted), v,
                   IF DistanceAtLeast(v, Head(sorted)[2]) THEN Head(sorted)[1] ELSE sofar)

\* lod_levels = [(TARGET, 0.0)] + LOD_OBJECTS
LodLevels == <<(<<TARGET, 0>>)>> \o LOD_OBJECTS

Hidden == [viewport |-> TRUE, render |-> TRUE]
Visible == [viewport |-> FALSE, render |-> FALSE]

\* Faulty variant of ShowOnly: the other objects are left as they were.
ShowWithoutHiding(h, obj) == [h EXCEPT ![obj] = Visible]

\* Hide TARGET and every LOD object, then show the chosen one.
ShowOnly(h, obj) == [o \in DOMAIN h |-> IF o = obj THEN Visible ELSE Hidden]

LodInit ==
    /\ lodPc = "start"
    /\ lodSettings \in LodSettingLists
    /\ sceneCamera = NoCamera
    /\ TARGET = NoObject
    /\ LOD_OBJECTS = <<>>
    /\ hide = <<>>
    /\ chosen = NoObject

\* clear_scene(): select all, delete.
LodClearScene ==
    /\ lodPc = "start"
    /\ lodPc' = "cleared"
    /\ sceneCamera' = NoCamera
    /\ hide' = <<>>
    /\ UNCHANGED <<lodSettings, TARGET, LOD_OBJECTS, chosen>>
    /\ UNCHANGED notLod

\* setup_camera_and_light(): the new camera becomes scene.camera.
LodSetupCamera ==
    /\ lodPc = "cleared"
    /\ lodPc' = "camera"
    /\ sceneCamera' = MainCameraLocation
    /\ UNCHANGED <<lodSettings, TARGET, LOD_OBJECTS, hide, chosen>>
    /\ UNCHANGED notLod

\* main(): the UV sphere becomes TARGET (a new object is visible).
LodCreateTarget ==
    /\ lodPc = "camera"
    /\ lodPc' = "generate"
    /\ TARGET' = TargetObject
    /\ hide' = <<Visible>>
    /\ UNCHANGED <<lodSettings, sceneCamera, LOD_OBJECTS, chosen>>
    /\ UNCHANGED notLod

\* generate_lod_levels(), one iteration: duplicate the target (the copy
\* takes over its visibility), decimate it, append (lod_obj, distance).
LodGenerate ==
    /\ lodPc = "generate"
    /\ Len(LOD_OBJECTS) < Len(lodSettings)
    /\ LET obj == Len(hide) + 1
           distance == lodSettings[Len(LOD_OBJECTS) + 1][2]
       IN  /\ hide' = Append(hide, hide[TARGET])
           /\ LOD_OBJECTS' = Append(LOD_OBJECTS, <<obj, distance>>)
    /\ UNCHANGED <<lodPc, lodSettings, sceneCamera, TARGET, chosen>>
    /\ UNCHANGED notLod

\* update_lod(): returns at once without a camera or a target; otherwise
\* chooses by distance, hides everything and shows the chosen object.
UpdateLod ==
    /\ IF lodPc = "generate"
       THEN Len(LOD_OBJECTS) = Len(lodSettings)
       ELSE lodPc \in {"updated", "moved"}
    /\ sceneCamera # NoCamera
    /\ TARGET # NoObject
    /\ LET v == VecSub(sceneCamera, TargetLocation)
           obj == ChooseLod(SortByThreshold(LodLevels), v, TARGET)
       IN  /\ chosen' = obj
           /\ hide' = ShowOnly(hide, obj)
    /\ lodPc' = "updated"
    /\ UNCHANGED <<lodSettings, sceneCamera, TARGET, LOD_OBJECTS>>
    /\ UNCHANGED notLod

\* The camera is moved between two calls of update_lod.
MoveCamera ==
    /\ lodPc \in {"updated", "moved"}
    /\ \E loc \in CameraLocations :
        /\ loc # sceneCamera
        /\ sceneCamera' = loc
    /\ lodPc' = "moved"
    /\ UNCHANGED <<lodSettings, TARGET, LOD_OBJECTS, hide, chosen>>
    /\ UNCHANGED notLod

\* render_image(): renders what is visible; main() ends.
LodRender ==
    /\ lodPc = "updated"
    /\ lodPc' = "rendered"
    /\ UNCHANGED <<lodSettings, sceneCamera, TARGET, LOD_OBJECTS, hide, chosen>>
    /\ UNCHANGED notLod

LodNext ==
    \/ LodClearScene
    \/ LodSetupCamera
    \/ LodCreateTarget
    \/ LodGenerate
    \/ UpdateLod
    \/ MoveCamera
    \/ LodRender

\* ========================================================================
\* handson_006: create_branch(origin, direction, length, thickness, depth)

\* random.randint(2, 3)
BranchCounts == {2, 3}

\* Faulty variant of IsLeafCall: the depth == 0 test never succeeds.
NeverLeafCall(depth) == FALSE

\* if depth == 0: return
IsLeafCall(depth) == depth = 0

\* Faulty variant of Branches: a call at depth 1 still branches.
BranchesAtOne(depth) == depth >= 1

\* if depth > 1: the call draws num_branches and recurses
Branches(depth) == depth > 1

\* The depth argument of the recursive call.
ChildDepth(depth) == depth - 1

TopFrame == stack[Len(stack)]

Pop == SubSeq(stack, 1, Len(stack) - 1)

TreeInit ==
    /\ treePc = "init"
    /\ startDepth \in 0 .. MaxDepth
    /\ stack = <<>>
    /\ cylinders = 0
    /\ spawned = 0
    /\ rootBranches = 0

\* main(): create_branch(origin, direction, initial_length, initial_thickness, recursion_depth)
TreeRootCall ==
    /\ treePc = "init"
    /\ treePc' = "running"
    /\ stack' = <<[depth |-> startDepth, todo |-> 0, at |-> "enter"]>>
    /\ UNCHANGED <<startDepth, cylinders, spawned, rootBranches>>
    /\ UNCHANGED notTree

\* if depth == 0: return
BranchReturnAtZero ==
    /\ treePc = "running"
    /\ TopFrame.at = "enter"
    /\ IsLeafCall(TopFrame.depth)
    /\ stack' = Pop
    /\ treePc' = IF Len(stack) = 1 THEN "done" ELSE "running"
    /\ UNCHANGED <<startDepth, cylinders, spawned, rootBranches>>
    /\ UNCHANGED notTree

\* The body up to the loop: one cylinder is added; with depth > 1 the
\* number of child branches is drawn.
BranchCreate ==
    /\ treePc = "running"
    /\ TopFrame.at = "enter"
    /\ ~IsLeafCall(TopFrame.depth)
    /\ cylinders' = cylinders + 1
    /\ \E n \in BranchCounts :
        LET num_branches == IF Branches(TopFrame.depth) THEN n ELSE 0
        IN  /\ stack' = [stack EXCEPT ![Len(stack)] =
                            [depth |-> TopFrame.depth, todo |-> num_branches, at |-> "loop"]]
            /\ rootBranches' = IF Len(stack) = 1 THEN num_branches ELSE rootBranches
    /\ UNCHANGED <<treePc, startDepth, spawned>>
    /\ UNCHANGED notTree

\* One iteration of the loop: the recursive call for the next child.
BranchRecurse ==
    /\ treePc = "running"
    /\ TopFrame.at = "loop"
    /\ TopFrame.todo > 0
    /\ stack' = Append([stack EXCEPT ![Len(stack)].todo = @ - 1],
                       [depth |-> ChildDepth(TopFrame.depth), todo |-> 0, at |-> "enter"])
    /\ spawned' = spawned + 1
    /\ UNCHANGED <<treePc, startDepth, cylinders, rootBranches>>
    /\ UNCHANGED notTree

\* The loop is over (or there was none): the call returns.
BranchReturn ==
    /\ treePc = "running"
    /\ TopFrame.at = "loop"
    /\ TopFrame.todo = 0
    /\ stack' = Pop
    /\ treePc' = IF Len(stack) = 1 THEN "done" ELSE "running"
    /\ UNCHANGED <<startDepth, cylinders, spawned, rootBranches>>
    /\ UNCHANGED notTree

TreeNext ==
    \/ TreeRootCall
    \/ BranchReturnAtZero
    \/ BranchCreate
    \/ BranchRecurse
    \/ BranchReturn

\* ========================================================================
\* handson_006: the direction of a child branch (create_branch, the loop body)
\*
\* Vectors with rational coordinates are pairs <<V, d>>: the vector V / d with
\* V a triple of integers and d > 0.  The draws enumerated are those for which
\* every length taken is rational, so that the arithmetic is exact.

Abs(x) == IF x < 0 THEN -x ELSE x

RECURSIVE Gcd(_, _)
Gcd(a, b) == IF b = 0 THEN a ELSE Gcd(b, a % b)

RECURSIVE SqrtBetween(_, _, _)
SqrtBetween(n, lo, hi) ==
    IF lo >= hi THEN lo
    ELSE LET mid == (lo + hi + 1) \div 2
         IN  IF mid * mid <= n THEN SqrtBetween(n, mid, hi)
             ELSE SqrtBetween(n, lo, mid - 1)

\* The integer part of the square root of n
ISqrt(n) == SqrtBetween(n, 0, 46340)

IsSquare(n) == ISqrt(n) * ISqrt(n) = n

Dot(u, v) == u[1] * v[1] + u[2] * v[2] + u[3] * v[3]

Cross(u, v) ==
    <<u[2] * v[3] - u[3] * v[2], u[3] * v[1] - u[1] * v[3], u[1] * v[2] - u[2] * v[1]>>

VecScale(k, v) == <<k * v[1], k * v[2], k * v[3]>>

VecAdd(u, v) == <<u[1] + v[1], u[2] + v[2], u[3] + v[3]>>

VecDiv(v, k) == <<v[1] \div k, v[2] \div k, v[3] \div k>>

ZeroVector == <<0, 0, 0>>

VecGcd(v) == Gcd(Gcd(Abs(v[1]), Abs(v[2])), Abs(v[3]))

\* main(): direction = mathutils.Vector((0, 0, 1))
RootDirection == <<(<<0, 0, 1>>), 1>>

\* random.uniform(math.radians(20), math.radians(40)): the angles of that
\* range with rational cosine and sine, <<cos * h, sin * h, h>>
\* (36.87, 22.62 and 28.07 degrees).
Angles == {<<4, 3, 5>>, <<12, 5, 13>>, <<15, 8, 17>>}

\* Vector((uniform(-1, 1), uniform(-1, 1), uniform(-1, 1))), in units of 1/5
RandVecs == {<<x, y, z>> : x \in {-4, -3, 0, 3, 4}, y \in {-4, -3, 0, 3, 4},
                           z \in {-4, -3, 0, 3, 4}}

\* rand_vec - rand_vec.project(direction), with
\* project(a, b) = (a . b / b . b) * b
PerpOf(r, dir) ==
    LET D == dir[1]
    IN  <<VecAdd(VecScale(Dot(D, D), r), VecScale(-Dot(r, D), D)), 5 * Dot(D, D)>>

\* if perp.length == 0: perp = Vector((1, 0, 0))
FallbackAxis(dir) == <<(<<1, 0, 0>>), 1>>

\* The vector has a rational length.
ExactLength(v) == v[1] # ZeroVector /\ IsSquare(Dot(VecDiv(v[1], VecGcd(v[1])), VecDiv(v[1], VecGcd(v[1]))))

\* v.normalize(): v divided by its length
Normalize(v) ==
    LET W == VecDiv(v[1], VecGcd(v[1]))
    IN  <<W, ISqrt(Dot(W, W))>>

\* Matrix.Rotation(angle, 4, axis) @ v, by the axis-angle formula
\*   v cos + (k x v) sin + k (k . v) (1 - cos)
Rotate(ang, axis, v) ==
    LET K == axis[1]
        L == axis[2]
        D == v[1]
        N == v[2]
        a == ang[1]
        b == ang[2]
        h == ang[3]
    IN  <<VecAdd(VecAdd(VecScale(a * L * L, D), VecScale(b * L, Cross(K, D))),
                 VecScale(Dot(K, D) * (h - a), K)),
          L * L * N * h>>

ChildInit ==
    /\ childPc = "loop"
    /\ childLevel = 0
    /\ direction = RootDirection
    /\ angle = <<>>
    /\ rand_vec = <<>>
    /\ perp = <<>>
    /\ new_direction = <<>>

\* One iteration of "for i in range(num_branches)" up to the recursive call:
\* the angle and the random vector are drawn, the axis is made and normalised,
\* the direction is rotated about it and normalised.
ChildRotate ==
    /\ childPc = "loop"
    /\ \E ang \in Angles, r \in RandVecs :
        LET raw == PerpOf(r, direction)
            axis0 == IF raw[1] = ZeroVector THEN FallbackAxis(direction) ELSE raw
        IN  /\ ExactLength(axis0)
            /\ LET axis == Normalize(axis0)
                   rotated == Rotate(ang, axis, direction)
               IN  /\ ExactLength(rotated)
                   /\ angle' = ang
                   /\ rand_vec' = r
                   /\ perp' = axis
                   /\ new_direction' = Normalize(rotated)
    /\ childPc' = "rotated"
    /\ UNCHANGED <<childLevel, direction>>
    /\ UNCHANGED notChild

\* create_branch(new_origin, new_direction, ..., depth - 1): the body runs
\* again with the child's direction as its direction.
ChildDescend ==
    /\ childPc = "rotated"
    /\ childLevel < MaxLevel
    /\ new_direction[2] <= MaxDen
    /\ direction' = new_direction
    /\ childLevel' = childLevel + 1
    /\ childPc' = "loop"
    /\ angle' = <<>>
    /\ rand_vec' = <<>>
    /\ perp' = <<>>
    /\ new_direction' = <<>>
    /\ UNCHANGED notChild

\* The recursive call has returned (or was a leaf): the next iteration.
ChildNextBranch ==
    /\ childPc = "rotated"
    /\ childPc' = "loop"
    /\ angle' = <<>>
    /\ rand_vec' = <<>>
    /\ perp' = <<>>
    /\ new_direction' = <<>>
    /\ UNCHANGED <<childLevel, direction>>
    /\ UNCHANGED notChild

ChildNext ==
    \/ ChildRotate
    \/ ChildDescend
    \/ ChildNextBranch

\* ========================================================================
\* handson_025: create_building, the loop that paints the polygons
\*
\* normal.z, the drawn values and the colour channels are in hundredths.

\* Values of poly.normal.z
NormalZs == {-100, -50, -49, 0, 49, 50, 100}

\* Values of random.random(), which lies in [0.0, 1.0)
Draws == {0, 10, 30, 31, 45, 60, 61, 95}

NoDraw == -1

NoColor == <<>>

\* Faulty variant of IsWindowPolygon: the limit 0.5 counts as a window.
IsWindowPolygonInclusive(z) == Abs(z) <= 50

\* if abs(poly.normal.z) < 0.5
IsWindowPolygon(z) == Abs(z) < 50

\* if window_probability > 0.6 ... elif window_probability > 0.3 ... else
WindowClass(p) ==
    IF p > 60 THEN "lit" ELSE IF p > 30 THEN "dim" ELSE "dark"

\* The (r, g, b, 1.0) values the branch of a class can produce: colours with
\* each channel at an end of its random.uniform range, or the fixed dark colour.
WindowColors(class) ==
    IF class = "lit"
    THEN {<<90, 70, 20, 100>>, <<100, 90, 50, 100>>, <<90, 90, 50, 100>>}
    ELSE IF class = "dim"
    THEN {<<50, 50, 70, 100>>, <<80, 80, 90, 100>>, <<80, 50, 90, 100>>}
    ELSE {<<2, 2, 3, 100>>}

\* color_layer.data[idx].color = (0.05, 0.05, 0.07, 1.0)
StructureColor == <<5, 5, 7, 100>>

\* The loops of polygon i: a subdivided cube has quads only.
LoopIndices(i) == 1 .. 4

BldInit ==
    /\ bldPc = "loop"
    /\ polygons \in [1 .. NumPolygons -> NormalZs]
    /\ polyIdx = 1
    /\ window_probability = [i \in 1 .. NumPolygons |-> NoDraw]
    /\ color_layer = [i \in 1 .. NumPolygons |-> [l \in LoopIndices(i) |-> NoColor]]

\* The body of "for poly in mesh.polygons" for a window polygon: one value is
\* drawn, a colour is made from it, and every loop of the polygon gets it.
PaintWindow ==
    /\ bldPc = "loop"
    /\ polyIdx <= NumPolygons
    /\ IsWindowPolygon(polygons[polyIdx])
    /\ \E p \in Draws :
        /\ window_probability' = [window_probability EXCEPT ![polyIdx] = p]
        /\ \E c \in WindowColors(WindowClass(p)) :
               color_layer' = [color_layer EXCEPT ![polyIdx] = [l \in LoopIndices(polyIdx) |-> c]]
    /\ polyIdx' = polyIdx + 1
    /\ UNCHANGED <<bldPc, polygons>>
    /\ UNCHANGED notBld

\* The body of the loop for any other polygon: nothing is drawn.
PaintStructure ==
    /\ bldPc = "loop"
    /\ polyIdx <= NumPolygons
    /\ ~IsWindowPolygon(polygons[polyIdx])
    /\ color_layer' = [color_layer EXCEPT ![polyIdx] = [l \in LoopIndices(polyIdx) |-> StructureColor]]
    /\ polyIdx' = polyIdx + 1
    /\ UNCHANGED <<bldPc, polygons, window_probability>>
    /\ UNCHANGED notBld

\* The loop is over: create_building goes on to make the material.
PaintDone ==
    /\ bldPc = "loop"
    /\ polyIdx > NumPolygons
    /\ bldPc' = "material"
    /\ UNCHANGED <<polygons, polyIdx, window_probability, color_layer>>
    /\ UNCHANGED notBld

BldNext ==
    \/ PaintWindow
    \/ PaintStructure
    \/ PaintDone

\* ========================================================================
\* handson_014: apply_vertex_paint, the palette index of each loop
\*
\* A noise value is k / NoiseDen; noise_at returns (n1 + n2 + n3) / 1.5 with
\* |n1| <= 1, |n2| <= 0.5, |n3| <= 0.25, so it can lie a little outside
\* [-1.0, 1.0].

\* create_camo_colors(), in hundredths
CamoColors ==
    <<(<<22, 25, 15, 100>>), (<<35, 32, 18, 100>>), (<<15, 17, 12, 100>>),
      (<<28, 24, 16, 100>>)>>

\* The values noise_at can return: up to 1.75 / 1.5 = 7/6 either side of zero,
\* and one step more.
NoiseValues == (-((7 * NoiseDen) \div 6) - 1) .. ((7 * NoiseDen) \div 6 + 1)

\* Python int() of the rational n / d (d > 0): truncation toward zero
PyInt(n, d) == IF n >= 0 THEN n \div d ELSE -((-n) \div d)

\* Python a % m for m > 0: the result is in 0 .. m - 1
PyMod(a, m) == a % m

\* Faulty variant of PaletteIndex: the index is not wrapped.
PaletteIndexNoWrap(k, numColors) == PyInt((k + NoiseDen) * numColors, 2 * NoiseDen)

\* int((noise_val + 1) * len(colors) / 2) % len(colors)
PaletteIndex(k, numColors) ==
    PyMod(PyInt((k + NoiseDen) * numColors, 2 * NoiseDen), numColors)

CamoInit ==
    /\ camoPc = "loop"
    /\ noise_val = <<>>
    /\ color_idx = <<>>

\* The body of the inner loop for one loop of the mesh up to the index.
PaintLoop ==
    /\ camoPc = "loop"
    /\ Len(noise_val) < NumLoops
    /\ \E k \in NoiseValues :
        /\ noise_val' = Append(noise_val, k)
        /\ color_idx' = Append(color_idx, PaletteIndex(k, Len(CamoColors)))
    /\ UNCHANGED camoPc
    /\ UNCHANGED notCamo

\* Every loop of every polygon has been painted.
CamoDone ==
    /\ camoPc = "loop"
    /\ Len(noise_val) = NumLoops
    /\ camoPc' = "painted"
    /\ UNCHANGED <<noise_val, color_idx>>
    /\ UNCHANGED notCamo

CamoNext ==
    \/ PaintLoop
    \/ CamoDone

\* ========================================================================
\* Scene preparation: what a script removes, what it creates and which camera
\* is active when it renders
\*
\* An object is a record [id, type, name, energy, size]; energy and size are
\* those of the light data (0 for other types).

None == "None"

NotRendered == "NotRendered"

Obj(id, type, name, energy, size) ==
    [id |-> id, type |-> type, name |-> name, energy |-> energy, size |-> size]

\* Objects a scene can hold before a script runs.
PreObjects ==
    {Obj("pre_camera", "CAMERA", "Camera", 0, 0),
     Obj("pre_cam2", "CAMERA", "Cam2", 0, 0),
     Obj("pre_light", "LIGHT", "Light", 1000, 0),
     Obj("pre_cube", "MESH", "Cube", 0, 0),
     Obj("pre_empty", "EMPTY", "Camera", 0, 0),
     Obj("pre_lamp", "LIGHT", "Plane", 10, 1)}

\* Object names are unique in a .blend file.
UniqueNames(objs) == \A a \in objs, b \in objs : a.name = b.name => a = b

Named(objs, name) == {o \in objs : o.name = name}

\* What the script removes at its start:
\*   "all"                  select_all + object.delete, or objects.remove of each
\*   "meshes"               handson_010, handson_011: objects of type MESH
\*   "keep_cameras_lights"  handson_017: all but cameras and lights
ClearKind(s) ==
    CASE s \in {"handson_010", "handson_011"} -> "meshes"
      [] s = "handson_017" -> "keep_cameras_lights"
      [] OTHER -> "all"

\* Faulty variant of Cleared: every object is removed, whatever the kind.
ClearedAll(kind, o) == TRUE

Cleared(kind, o) ==
    CASE kind = "meshes" -> o.type = "MESH"
      [] kind = "keep_cameras_lights" -> o.type \notin {"CAMERA", "LIGHT"}
      [] OTHER -> TRUE

\* How the script gets its camera:
\*   "new"               a camera is created and made scene.camera
\*   "named"             handson_010: the object named Camera, created when
\*                       missing, is made scene.camera
\*   "named_not_active"  handson_017: a camera is created when no object is
\*                       named Camera; scene.camera is not assigned
CameraKind(s) ==
    CASE s = "handson_010" -> "named"
      [] s = "handson_017" -> "named_not_active"
      [] OTHER -> "new"

\* Faulty variant of SceneSteps: handson_001 clears after its camera and lights.
SceneStepsClearLate(s) ==
    IF s = "handson_001" THEN <<"camera", "lights", "clear", "construct", "render">>
    ELSE <<"clear", "construct", "camera", "render">>

\* The order of the steps of a script up to the render.
SceneSteps(s) ==
    CASE s \in {"handson_001", "handson_002", "handson_003", "handson_004", "handson_006",
                "handson_007", "handson_008", "handson_009", "handson_023"}
            -> <<"clear", "camera", "lights", "construct", "render">>
      [] s \in {"handson_010", "handson_012", "handson_018", "handson_020", "handson_021",
                "handson_022", "handson_024", "handson_025"}
            -> <<"clear", "construct", "camera", "lights", "render">>
      [] s \in {"handson_011", "handson_016"}
            -> <<"clear", "construct", "camera", "render">>
      [] s \in {"handson_014", "handson_015"}
            -> <<"clear", "construct", "lights", "camera", "render">>
      [] s = "handson_013"
            -> <<"clear", "lights", "camera", "construct", "render">>
      [] s = "handson_019"
            -> <<"clear", "lights", "construct", "camera", "render">>
      [] s = "handson_017"
            -> <<"clear", "floor", "camera", "remove_lights", "lights", "construct", "render">>

SceneStep == IF scenePc \in 1 .. Len(SceneSteps(sceneScript))
             THEN SceneSteps(sceneScript)[scenePc] ELSE "end"

\* The lights a script creates; handson_017: KeyLight (energy 300, size 5)
\* and FillLight (energy 50, size 10).
NewLights(s) ==
    IF s = "handson_017"
    THEN {Obj("key_light", "LIGHT", "KeyLight", 300, 5),
          Obj("fill_light", "LIGHT", "FillLight", 50, 10)}
    ELSE {Obj("new_light", "LIGHT", "Sun", 3, 0)}

NewCamera(objs) ==
    Obj("new_camera", "CAMERA",
        IF Named(objs, "Camera") = {} THEN "Camera" ELSE "Camera.001", 0, 0)

SceneInit ==
    /\ sceneScript \in Scripts
    /\ scenePc = 1
    /\ initial_objects \in {objs \in SUBSET PreObjects : UniqueNames(objs)}
    /\ scene_objects = initial_objects
    /\ scene_camera \in {None} \cup {o.id : o \in {c \in initial_objects : c.type = "CAMERA"}}
    /\ designated = None
    /\ started = FALSE
    /\ lateDeleted = {}
    /\ render_camera = NotRendered

\* Removal of a set of objects: a removed object is no longer scene.camera.
RemoveObjects(gone) ==
    /\ scene_objects' = scene_objects \ gone
    /\ scene_camera' = IF scene_camera \in {o.id : o \in gone} THEN None ELSE scene_camera
    /\ lateDeleted' = IF started THEN lateDeleted \cup gone ELSE lateDeleted

\* clear_scene and its kin: the objects of the script's ClearKind are removed.
SceneClear ==
    /\ SceneStep = "clear"
    /\ RemoveObjects({o \in scene_objects : Cleared(ClearKind(sceneScript), o)})
    /\ scenePc' = scenePc + 1
    /\ UNCHANGED <<sceneScript, initial_objects, designated, started, render_camera>>
    /\ UNCHANGED notScene

\* handson_017: if not bpy.data.objects.get("Plane"): the floor and its
\* material are created.
SceneFloor ==
    /\ SceneStep = "floor"
    /\ IF Named(scene_objects, "Plane") = {}
       THEN /\ scene_objects' = scene_objects \cup {Obj("floor", "MESH", "Plane", 0, 0)}
            /\ started' = TRUE
       ELSE UNCHANGED <<scene_objects, started>>
    /\ scenePc' = scenePc + 1
    /\ UNCHANGED <<sceneScript, initial_objects, scene_camera, designated, lateDeleted,
                   render_camera>>
    /\ UNCHANGED notScene

\* The meshes and materials of the script are created.
SceneConstruct ==
    /\ SceneStep = "construct"
    /\ scene_objects' = scene_objects \cup {Obj("new_mesh", "MESH", "Mesh", 0, 0)}
    /\ started' = TRUE
    /\ scenePc' = scenePc + 1
    /\ UNCHANGED <<sceneScript, initial_objects, scene_camera, designated, lateDeleted,
                   render_camera>>
    /\ UNCHANGED notScene

\* The camera of the script.  In handson_017 camera_add is not followed by
\* an assignment to scene.camera: the operator itself makes the new camera
\* the scene camera only when the scene has none and a 3D viewport is open, so
\* both outcomes are allowed there.
SceneCamera ==
    /\ SceneStep = "camera"
    /\ LET kind == CameraKind(sceneScript)
           create == kind = "new" \/ Named(scene_objects, "Camera") = {}
           cam == NewCamera(scene_objects)
           objs == IF create THEN scene_objects \cup {cam} ELSE scene_objects
           chosen_cam == IF kind = "new" THEN cam
                         ELSE CHOOSE o \in Named(objs, "Camera") : TRUE
       IN  /\ scene_objects' = objs
           /\ designated' = chosen_cam.id
           /\ started' = (started \/ create)
           /\ IF kind = "named_not_active"
              THEN scene_camera' \in
                       IF create /\ scene_camera = None THEN {None, cam.id} ELSE {scene_camera}
              ELSE scene_camera' = chosen_cam.id
    /\ scenePc' = scenePc + 1
    /\ UNCHANGED <<sceneScript, initial_objects, lateDeleted, render_camera>>
    /\ UNCHANGED notScene

\* handson_017: for obj in scene.objects: if obj.type == 'LIGHT': remove it
SceneRemoveLights ==
    /\ SceneStep = "remove_lights"
    /\ RemoveObjects({o \in scene_objects : o.type = "LIGHT"})
    /\ scenePc' = scenePc + 1
    /\ UNCHANGED <<sceneScript, initial_objects, designated, started, render_camera>>
    /\ UNCHANGED notScene

\* The lights of the script are created.
SceneLights ==
    /\ SceneStep = "lights"
    /\ scene_objects' = scene_objects \cup NewLights(sceneScript)
    /\ started' = TRUE
    /\ scenePc' = scenePc + 1
    /\ UNCHANGED <<sceneScript, initial_objects, scene_camera, designated, lateDeleted,
                   render_camera>>
    /\ UNCHANGED notScene

\* bpy.ops.render.render(...): the frame is taken from scene.camera.
SceneRender ==
    /\ SceneStep = "render"
    /\ render_camera' = scene_camera
    /\ scenePc' = scenePc + 1
    /\ UNCHANGED <<sceneScript, initial_objects, scene_objects, scene_camera, designated,
                   started, lateDeleted>>
    /\ UNCHANGED notScene

SceneNext ==
    \/ SceneClear
    \/ SceneFloor
    \/ SceneConstruct
    \/ SceneCamera
    \/ SceneRemoveLights
    \/ SceneLights
    \/ SceneRender

\* ========================================================================
\* handson_010: create_custom_node_group and the material constructors
\*
\* A data-block is a record [name, interface, nodes, links]: name is
\* <<requested name, k>>, k > 0 standing for the suffix ".00k" a second
\* data-block of the same requested name gets; interface is the sequence of
\* sockets <<name, in_out>>, nodes the sequence of node types, links the
\* sequence of <<from socket, to socket>>.

Block(name, interface, nodes, links) ==
    [name |-> name, interface |-> interface, nodes |-> nodes, links |-> links]

Constructors ==
    {"create_custom_node_group", "create_material_with_custom_group",
     "create_floor_material", "create_normal_material"}

\* Faulty variant of IndexOf: a data-block is never found by its name.
IndexOfNothing(coll, name) == 0

\* collection.get(name): the position of the data-block of that name, 0 for None
IndexOf(coll, name) ==
    IF \E i \in 1 .. Len(coll) : coll[i].name = <<name, 0>>
    THEN CHOOSE i \in 1 .. Len(coll) : coll[i].name = <<name, 0>>
    ELSE 0

\* collection.new(name): an empty data-block is appended, with a suffix when
\* the name is taken.
WithNew(coll, name) ==
    Append(coll, Block(<<name, Cardinality({i \in 1 .. Len(coll) : coll[i].name[1] = name})>>,
                       <<>>, <<>>, <<>>))

\* The data-block of that name after "get, or new when None".
GetOrNew(coll, name) == IF IndexOf(coll, name) = 0 THEN WithNew(coll, name) ELSE coll

PositionOf(coll, name) == IF IndexOf(coll, name) = 0 THEN Len(coll) + 1 ELSE IndexOf(coll, name)

\* A node graph left by something else under one of the names.
StaleBlock(name) ==
    Block(<<name, 0>>, <<(<<"Old", "INPUT">>)>>,
          <<"ShaderNodeBsdfDiffuse", "ShaderNodeOutputMaterial", "NodeGroupInput", "NodeFrame">>,
          <<(<<"BSDF", "Surface">>)>>)

NodesInit ==
    /\ node_groups \in {<<>>, <<StaleBlock("CustomEmissionGroup")>>, <<StaleBlock("Other")>>}
    /\ materials \in {<<>>,
                      <<StaleBlock("FloorMaterial")>>,
                      <<StaleBlock("Material"), StaleBlock("NormalMaterial"),
                        StaleBlock("CustomEmissionMaterial")>>}
    /\ nodeCalls = [f \in Constructors |-> 0]

Called(f) ==
    /\ nodeCalls[f] < MaxCalls
    /\ nodeCalls' = [nodeCalls EXCEPT ![f] = @ + 1]

\* create_custom_node_group(): nodes and links of an existing group are
\* cleared, the interface is cleared, then sockets, nodes and links are made.
CreateCustomNodeGroup ==
    /\ Called("create_custom_node_group")
    /\ LET groups == GetOrNew(node_groups, "CustomEmissionGroup")
           i == PositionOf(node_groups, "CustomEmissionGroup")
       IN  node_groups' =
               [groups EXCEPT ![i] =
                   Block(groups[i].name,
                         <<(<<"Input Color", "INPUT">>), (<<"Strength", "INPUT">>),
                           (<<"Shader", "OUTPUT">>)>>,
                         <<"NodeGroupInput", "ShaderNodeEmission", "NodeGroupOutput">>,
                         <<(<<"Input Color", "Color">>), (<<"Strength", "Strength">>),
                           (<<"Emission", "Shader">>)>>)]
    /\ UNCHANGED materials
    /\ UNCHANGED notNodes

\* A material constructor: the material of that name is looked up or made,
\* its nodes are cleared (their links go with them) and the graph is made.
RebuildMaterial(name, nodes, links) ==
    LET mats == GetOrNew(materials, name)
        i == PositionOf(materials, name)
    IN  materials' = [mats EXCEPT ![i] = Block(mats[i].name, mats[i].interface, nodes, links)]

\* create_material_with_custom_group(node_group)
CreateMaterialWithCustomGroup ==
    /\ IndexOf(node_groups, "CustomEmissionGroup") # 0
    /\ Called("create_material_with_custom_group")
    /\ RebuildMaterial("CustomEmissionMaterial",
                       <<"ShaderNodeOutputMaterial", "ShaderNodeGroup">>,
                       <<(<<"Shader", "Surface">>)>>)
    /\ UNCHANGED node_groups
    /\ UNCHANGED notNodes

\* create_floor_material()
CreateFloorMaterial ==
    /\ Called("create_floor_material")
    /\ RebuildMaterial("FloorMaterial",
                       <<"ShaderNodeBsdfPrincipled", "ShaderNodeOutputMaterial">>,
                       <<(<<"BSDF", "Surface">>)>>)
    /\ UNCHANGED node_groups
    /\ UNCHANGED notNodes

\* create_normal_material()
CreateNormalMaterial ==
    /\ Called("create_normal_material")
    /\ RebuildMaterial("NormalMaterial",
                       <<"ShaderNodeBsdfPrincipled", "ShaderNodeOutputMaterial">>,
                       <<(<<"BSDF", "Surface">>)>>)
    /\ UNCHANGED node_groups
    /\ UNCHANGED notNodes

NodesNext ==
    \/ CreateCustomNodeGroup
    \/ CreateMaterialWithCustomGroup
    \/ CreateFloorMaterial
    \/ CreateNormalMaterial

\* ========================================================================
\* handson_023: assemble_totem_pole and the depths of Config
\*
\* Lengths are integers in 1/100 units (3.0 is 300).  An object set as .parent
\* by assignment gets no parent-inverse matrix, and the base is neither
\* rotated nor scaled, so a child's world location is its parent's plus its
\* own location.

base_depth == 300
head_depth == 50
bottom_depth == 50

TotemConfigs ==
    [base_depth : {200, base_depth, 420}, head_depth : {30, head_depth, 100},
     bottom_depth : {bottom_depth, 80, 110}]

TotemParts == {"base", "head", "beak", "left_wing", "right_wing", "mid_face", "bottom"}

NoPart == "NoPart"

\* Config.__init__: the location each part is created at.
ConfigLocation(cfg, part) ==
    CASE part = "base" -> <<0, 0, cfg.base_depth \div 2>>
      [] part = "head" -> <<0, 0, cfg.base_depth + cfg.head_depth \div 2>>
      [] part = "beak" -> <<0, 30, cfg.base_depth + 10>>
      [] part = "left_wing" -> <<0, 0, cfg.base_depth + 20>>
      [] part = "right_wing" -> <<0, 0, cfg.base_depth + 20>>
      [] part = "mid_face" -> <<0, 0, (cfg.base_depth * 6) \div 10>>
      [] part = "bottom" -> <<0, 0, cfg.bottom_depth \div 2>>

\* Faulty variant of AssignedZ: the whole depth of the part is added.
AssignedZWholeDepth(cfg, part) ==
    CASE part = "head" -> cfg.base_depth + cfg.head_depth
      [] part = "beak" -> cfg.base_depth + 10
      [] part = "mid_face" -> (cfg.base_depth * 6) \div 10
      [] part = "bottom" -> cfg.bottom_depth

\* The value assigned to part.location.z at the end of assemble_totem_pole.
AssignedZ(cfg, part) ==
    CASE part = "head" -> cfg.base_depth + cfg.head_depth \div 2
      [] part = "beak" -> cfg.base_depth + 10
      [] part = "mid_face" -> (cfg.base_depth * 6) \div 10
      [] part = "bottom" -> cfg.bottom_depth \div 2

\* The statements of assemble_totem_pole, in order.
AssembleSteps ==
    <<(<<"create", "base">>), (<<"create", "head">>), (<<"create", "beak">>),
      (<<"create", "left_wing">>), (<<"create", "right_wing">>),
      (<<"create", "mid_face">>), (<<"create", "bottom">>),
      (<<"parent", "head">>), (<<"parent", "beak">>), (<<"parent", "left_wing">>),
      (<<"parent", "right_wing">>), (<<"parent", "mid_face">>), (<<"parent", "bottom">>),
      (<<"z", "head">>), (<<"z", "beak">>), (<<"z", "mid_face">>), (<<"z", "bottom">>)>>

AssembleStep == IF totemPc < Len(AssembleSteps) THEN AssembleSteps[totemPc + 1] ELSE <<"done", "">>

\* matrix_world translation of a part
WorldLocation(t, part) ==
    IF t[part].parent = None
    THEN t[part].location
    ELSE VecAdd(t[t[part].parent].location, t[part].location)

TotemInit ==
    /\ totemPc = 0
    /\ totemConfig \in TotemConfigs
    /\ totem = [p \in TotemParts |-> NoPart]

\* create_totem_base .. create_bottom_figure
TotemCreate ==
    /\ AssembleStep[1] = "create"
    /\ totem' = [totem EXCEPT ![AssembleStep[2]] =
                    [parent |-> None, location |-> ConfigLocation(totemConfig, AssembleStep[2])]]
    /\ totemPc' = totemPc + 1
    /\ UNCHANGED totemConfig
    /\ UNCHANGED notTotem

\* <part>.parent = base
TotemSetParent ==
    /\ AssembleStep[1] = "parent"
    /\ totem' = [totem EXCEPT ![AssembleStep[2]].parent = "base"]
    /\ totemPc' = totemPc + 1
    /\ UNCHANGED totemConfig
    /\ UNCHANGED notTotem

\* <part>.location.z = ...
TotemSetZ ==
    /\ AssembleStep[1] = "z"
    /\ totem' = [totem EXCEPT ![AssembleStep[2]].location[3] =
                    AssignedZ(totemConfig, AssembleStep[2])]
    /\ totemPc' = totemPc + 1
    /\ UNCHANGED totemConfig
    /\ UNCHANGED notTotem

TotemNext ==
    \/ TotemCreate
    \/ TotemSetParent
    \/ TotemSetZ

\* ========================================================================
\* handson_019: keyframes of the follow-path offset and the rendered frames
\*
\* A value of the animated property is a fraction <<numerator, denominator>>.

\* Faulty variant of KeyframeInsert: the key lands on the current frame, 1.
KeyframeInsertAtCurrentFrame(keys, frame, value) ==
    {k \in keys : k[1] # 1} \cup {<<1, value>>}

\* keyframe_insert(data_path, frame=frame) with the property holding value
KeyframeInsert(keys, frame, value) ==
    {k \in keys : k[1] # frame} \cup {<<frame, value>>}

KeyAt(keys, frame) == CHOOSE k \in keys : k[1] = frame

KeyFrames(keys) == {k[1] : k \in keys}

Max(S) == CHOOSE x \in S : \A y \in S : y <= x

Min(S) == CHOOSE x \in S : \A y \in S : x <= y

\* The value between two keys, d frames apart, n frames after the left one.
\* BEZIER is the ease curve of automatic handles, which are flat at the two
\* end keys; the handles are taken a third of the interval long.
Interpolate(mode, vl, vr, n, d) ==
    CASE mode = "CONSTANT" -> <<vl, 1>>
      [] mode = "LINEAR" -> <<vl * d * d * d + (vr - vl) * n * d * d, d * d * d>>
      [] mode = "BEZIER" -> <<vl * d * d * d + (vr - vl) * (3 * n * n * d - 2 * n * n * n),
                              d * d * d>>

\* The animated value at a frame: held before the first and after the last key.
Evaluate(keys, mode, frame) ==
    LET before == {f \in KeyFrames(keys) : f <= frame}
        after == {f \in KeyFrames(keys) : f > frame}
    IN  IF before = {} THEN <<KeyAt(keys, Min(after))[2], 1>>
        ELSE IF after = {} THEN <<KeyAt(keys, Max(before))[2], 1>>
        ELSE Interpolate(mode, KeyAt(keys, Max(before))[2], KeyAt(keys, Min(after))[2],
                         frame - Max(before), Min(after) - Max(before))

NotSampled == <<0, 1>>

PathInit ==
    /\ pathPc = "curve"
    /\ path_duration = 100
    /\ offset_keys = {}
    /\ interpolation \in {"CONSTANT", "LINEAR", "BEZIER"}
    /\ frame_range \in {<<1, 250>>, <<5, 20>>}
    /\ frame_step \in {1, 2}
    /\ frame_current \in {1, 7}
    /\ firstRendered = 0
    /\ sampled = NotSampled
    /\ lastSampled = NotSampled

\* create_curve()
CreateCurve ==
    /\ pathPc = "curve"
    /\ path_duration' = 300
    /\ pathPc' = "follower"
    /\ UNCHANGED <<offset_keys, interpolation, frame_range, frame_step, frame_current,
                   firstRendered, sampled, lastSampled>>
    /\ UNCHANGED notPath

\* create_path_follower(curve)
CreatePathFollower ==
    /\ pathPc = "follower"
    /\ offset_keys' = KeyframeInsert(KeyframeInsert({}, 1, 0), 300, 1)
    /\ pathPc' = "settings"
    /\ UNCHANGED <<path_duration, interpolation, frame_range, frame_step, frame_current,
                   firstRendered, sampled, lastSampled>>
    /\ UNCHANGED notPath

\* setup_render_settings(output_filepath)
SetupRenderSettings ==
    /\ pathPc = "settings"
    /\ frame_range' = <<1, 300>>
    /\ pathPc' = "render"
    /\ UNCHANGED <<path_duration, offset_keys, interpolation, frame_step, frame_current,
                   firstRendered, sampled, lastSampled>>
    /\ UNCHANGED notPath

\* render.render(animation=True): the next frame of the range is rendered.
RenderFrame ==
    /\ pathPc = "render"
    /\ LET frame == IF firstRendered = 0 THEN frame_range[1] ELSE frame_current + frame_step
       IN  /\ frame <= frame_range[2]
           /\ frame_current' = frame
           /\ firstRendered' = IF firstRendered = 0 THEN frame ELSE firstRendered
           /\ sampled' = Evaluate(offset_keys, interpolation, frame)
           /\ lastSampled' = IF firstRendered = 0
                             THEN Evaluate(offset_keys, interpolation, frame)
                             ELSE sampled
    /\ UNCHANGED <<pathPc, path_duration, offset_keys, interpolation, frame_range, frame_step>>
    /\ UNCHANGED notPath

\* render.render(animation=True) returns after the last frame of the range.
RenderEnd ==
    /\ pathPc = "render"
    /\ firstRendered # 0
    /\ frame_current + frame_step > frame_range[2]
    /\ pathPc' = "done"
    /\ UNCHANGED <<path_duration, offset_keys, interpolation, frame_range, frame_step,
                   frame_current, firstRendered, sampled, lastSampled>>
    /\ UNCHANGED notPath

PathNext ==
    \/ CreateCurve
    \/ CreatePathFollower
    \/ SetupRenderSettings
    \/ RenderFrame
    \/ RenderEnd

\* ========================================================================
\* handson_024: the sine displacement of the cylinder's vertices
\*
\* Lengths are integers in 1/10000 units.  The cylinder has depth 2 and its
\* side is subdivided with 3 cuts, so its vertices lie on the five rings
\* z = -1, -0.5, 0, 0.5, 1.

amplitude == 2000
height == 20000
z_bottom == -10000
z_top == 10000
Tolerance == 10
number_cuts == 3

RingHeights == {z_bottom + (k * height) \div (number_cuts + 1) : k \in 0 .. number_cuts + 1}

VertexCos == {<<x, y, z>> : x \in {10000}, y \in {0, -10000}, z \in RingHeights}

\* 10000 * sin(pi * k / 4), truncated, for k = 0 .. 4
SinQuarters == <<0, 7071, 10000, 7071, 0>>

\* 10000 * sin(pi * num / den), for a factor num / den that is a multiple of 1/4
SinPi(num, den) == SinQuarters[(4 * num) \div den + 1]

\* the test that makes the loop skip a vertex
AtTopOrBottom(z) == Abs(z - z_top) < Tolerance \/ Abs(z - z_bottom) < Tolerance

\* Faulty variant of Displacement: the amplitude is left out.
DisplacementUnscaled(z) == SinPi(z - z_bottom, height)

\* displacement = amplitude * sin(pi * factor), factor = (z - z_bottom) / height
Displacement(z) == (amplitude * SinPi(z - z_bottom, height)) \div 10000

WaveInit ==
    /\ wavePc = 0
    /\ rest_co \in [1 .. NumVertices -> VertexCos]
    /\ co = rest_co

\* one pass of the loop over cylinder.data.vertices: the vertex is skipped
WaveSkip ==
    /\ wavePc < NumVertices
    /\ AtTopOrBottom(co[wavePc + 1][3])
    /\ wavePc' = wavePc + 1
    /\ UNCHANGED <<rest_co, co>>
    /\ UNCHANGED notWave

\* one pass of the loop over cylinder.data.vertices: the vertex is moved
WaveDisplace ==
    /\ wavePc < NumVertices
    /\ ~AtTopOrBottom(co[wavePc + 1][3])
    /\ co' = [co EXCEPT ![wavePc + 1][3] = @ + Displacement(@)]
    /\ wavePc' = wavePc + 1
    /\ UNCHANGED rest_co
    /\ UNCHANGED notWave

WaveNext ==
    \/ WaveSkip
    \/ WaveDisplace

\* ========================================================================
\* handson_008: the two array modifiers of the base cube
\*
\* Relative offsets are kept doubled (1.5 is 3); lengths are in Blender units.

ArrPriorObjects ==
    {<<"Cube", "MESH">>, <<"Camera", "CAMERA">>, <<"Light", "LIGHT">>,
     <<"Plane", "MESH">>, <<"BaseCube", "MESH">>}

CubeSize == 2

\* Faulty variant of RelativeOffset: X keeps the 1.0 a new modifier has.
RelativeOffsetKeepingX(offset2, axis) == <<2, offset2 * axis[2], offset2 * axis[3]>>

\* relative_offset_displace[i] = offset * axis[i], doubled
RelativeOffset(offset2, axis) == <<offset2 * axis[1], offset2 * axis[2], offset2 * axis[3]>>

\* add_array_modifier(obj, modifier_name, count, offset, axis): the modifier made
ArrayModifier(modifier_name, count, offset2, axis) ==
    [name |-> modifier_name, type |-> "ARRAY", count |-> count,
     use_relative_offset |-> TRUE,
     relative_offset_displace |-> RelativeOffset(offset2, axis)]

\* The extent of a set of cube origins along axis i.
Extent(origins, i) ==
    Max({p[i] : p \in origins}) - Min({p[i] : p \in origins}) + CubeSize

\* An array modifier applied to a mesh: count copies, each displaced from the
\* one before by the relative offset times the extent of the incoming mesh.
ArrayApply(origins, mod) ==
    LET shift == [i \in 1 .. 3 |->
                     (mod.relative_offset_displace[i] * Extent(origins, i)) \div 2]
    IN  {<<p[1] + k * shift[1], p[2] + k * shift[2], p[3] + k * shift[3]>> :
            p \in origins, k \in 0 .. mod.count - 1}

RECURSIVE EvaluateStack(_, _)
\* The modifier stack applied in order, each to the output of the one before.
EvaluateStack(origins, mods) ==
    IF mods = <<>> THEN origins
    ELSE EvaluateStack(ArrayApply(origins, Head(mods)), Tail(mods))

ArrInit ==
    /\ arrPc = "clear_scene"
    /\ arrPrior \in SUBSET ArrPriorObjects
    /\ arrObjects = arrPrior
    /\ modifiers = <<>>
    /\ instances = {}

\* clear_scene()
ArrClearScene ==
    /\ arrPc = "clear_scene"
    /\ arrObjects' = {}
    /\ arrPc' = "setup_camera_and_light"
    /\ UNCHANGED <<arrPrior, modifiers, instances>>
    /\ UNCHANGED notArr

\* setup_camera_and_light()
ArrSetupCameraAndLight ==
    /\ arrPc = "setup_camera_and_light"
    /\ arrObjects' = arrObjects \cup {<<"Camera", "CAMERA">>, <<"Sun", "LIGHT">>}
    /\ arrPc' = "create_base_object"
    /\ UNCHANGED <<arrPrior, modifiers, instances>>
    /\ UNCHANGED notArr

\* create_base_object()
ArrCreateBaseObject ==
    /\ arrPc = "create_base_object"
    /\ arrObjects' = arrObjects \cup {<<"BaseCube", "MESH">>}
    /\ arrPc' = "Array_X"
    /\ UNCHANGED <<arrPrior, modifiers, instances>>
    /\ UNCHANGED notArr

\* the two calls of add_array_modifier in main
AddArrayModifier ==
    /\ \/ /\ arrPc = "Array_X"
          /\ modifiers' = Append(modifiers, ArrayModifier("Array_X", 8, 3, <<1, 0, 0>>))
          /\ arrPc' = "Array_Y"
       \/ /\ arrPc = "Array_Y"
          /\ modifiers' = Append(modifiers, ArrayModifier("Array_Y", 4, 3, <<0, 1, 0>>))
          /\ arrPc' = "render_image"
    /\ UNCHANGED <<arrPrior, arrObjects, instances>>
    /\ UNCHANGED notArr

\* render_image(): the cube is rendered with its modifiers applied
ArrRenderImage ==
    /\ arrPc = "render_image"
    /\ instances' = EvaluateStack({<<0, 0, 0>>}, modifiers)
    /\ arrPc' = "done"
    /\ UNCHANGED <<arrPrior, arrObjects, modifiers>>
    /\ UNCHANGED notArr

ArrNext ==
    \/ ArrClearScene
    \/ ArrSetupCameraAndLight
    \/ ArrCreateBaseObject
    \/ AddArrayModifier
    \/ ArrRenderImage

\* ========================================================================
\* handson_016: the subdivision of the star plane (create_starry_sky)

num_stars == 5000

\* Faulty variant of NumberCuts: two are taken off the root.
NumberCutsLessTwo(n) == ISqrt(n) - 2

\* Faulty variant of NumberCuts: the root is rounded up.
NumberCutsCeil(n) == IF IsSquare(n) THEN ISqrt(n) - 1 ELSE ISqrt(n)

\* int((n)**0.5 - 1) for n >= 1: the root less one is not negative, so the
\* truncation of int() takes its integer part.
NumberCuts(n) == ISqrt(n) - 1

StarInit ==
    /\ starPc = "create"
    /\ starCount \in (1 .. MaxStars) \cup {num_stars}
    /\ number_cuts_used = -1

\* create_starry_sky(): the plane is added and subdivided
CreateStarrySky ==
    /\ starPc = "create"
    /\ number_cuts_used' = NumberCuts(starCount)
    /\ starPc' = "done"
    /\ UNCHANGED starCount
    /\ UNCHANGED notStar

StarNext == CreateStarrySky

\* ========================================================================
\* handson_023: ambient occlusion and the render engine (full_main)

RenderEngines == {"BLENDER_EEVEE", "CYCLES", "BLENDER_WORKBENCH"}

\* The setup steps of full_main, in order.
SetupSteps ==
    <<"clear_scene", "setup_world_background", "setup_environment_texture",
      "setup_ambient_occlusion", "setup_render", "done">>

AoInit ==
    /\ aoPc = 1
    /\ configEngine \in {"BLENDER_EEVEE", "CYCLES"}
    /\ priorEngine \in RenderEngines
    /\ sceneEngine = priorEngine
    /\ eevee \in [use_gtao : BOOLEAN, gtao_distance : {2, 5}]
    /\ aoApplied = FALSE

\* clear_scene(), setup_world_background(), setup_environment_texture():
\* none of them touches the render settings.
SetupOther ==
    /\ SetupSteps[aoPc] \in
           {"clear_scene", "setup_world_background", "setup_environment_texture"}
    /\ aoPc' = aoPc + 1
    /\ UNCHANGED <<configEngine, priorEngine, sceneEngine, eevee, aoApplied>>
    /\ UNCHANGED notAo

\* setup_ambient_occlusion()
SetupAmbientOcclusion ==
    /\ SetupSteps[aoPc] = "setup_ambient_occlusion"
    /\ IF sceneEngine = "BLENDER_EEVEE"
       THEN /\ eevee' = [use_gtao |-> TRUE, gtao_distance |-> 10]
            /\ aoApplied' = TRUE
       ELSE UNCHANGED <<eevee, aoApplied>>
    /\ aoPc' = aoPc + 1
    /\ UNCHANGED <<configEngine, priorEngine, sceneEngine>>
    /\ UNCHANGED notAo

\* setup_render()
SetupRender ==
    /\ SetupSteps[aoPc] = "setup_render"
    /\ sceneEngine' = configEngine
    /\ aoPc' = aoPc + 1
    /\ UNCHANGED <<configEngine, priorEngine, eevee, aoApplied>>
    /\ UNCHANGED notAo

AoNext ==
    \/ SetupOther
    \/ SetupAmbientOcclusion
    \/ SetupRender

\* ========================================================================
\* handson_017: main times the run and warns when it took too long

MAX_EXECUTION_TIME == 10

NotTimed == -1

\* The statements of main, in order; those of TryBlock are inside its try.
MainSteps ==
    <<"start_time", "prepare_output_directory", "initialize_scene",
      "create_and_place_object", "setup_rendering", "render_scene", "end_time", "done">>

TryBlock == {"initialize_scene", "create_and_place_object", "setup_rendering", "render_scene"}

\* Faulty variant of OverBudget: the budget itself counts as exceeded.
OverBudgetInclusive(execution_time) == execution_time >= MAX_EXECUTION_TIME

\* if execution_time > MAX_EXECUTION_TIME
OverBudget(execution_time) == execution_time > MAX_EXECUTION_TIME

TimerInit ==
    /\ timerPc = 1
    /\ now \in {0, 1}
    /\ start_time = NotTimed
    /\ end_time = NotTimed
    /\ renderCalls = 0
    /\ renderDone = 0
    /\ timerConsole = {}

\* Time passes while main runs.
TimerTick ==
    /\ MainSteps[timerPc] # "done"
    /\ now < MaxSeconds
    /\ now' = now + 1
    /\ UNCHANGED <<timerPc, start_time, end_time, renderCalls, renderDone, timerConsole>>
    /\ UNCHANGED notTimer

\* start_time = time.time()
TimerStart ==
    /\ MainSteps[timerPc] = "start_time"
    /\ start_time' = now
    /\ timerPc' = timerPc + 1
    /\ UNCHANGED <<now, end_time, renderCalls, renderDone, timerConsole>>
    /\ UNCHANGED notTimer

\* prepare_output_directory, initialize_scene, create_and_place_object,
\* setup_rendering: the step returns.
TimerStep ==
    /\ MainSteps[timerPc] \in
           {"prepare_output_directory", "initialize_scene", "create_and_place_object",
            "setup_rendering"}
    /\ timerPc' = timerPc + 1
    /\ UNCHANGED <<now, start_time, end_time, renderCalls, renderDone, timerConsole>>
    /\ UNCHANGED notTimer

\* render_scene(scene) is called; the render takes its time.
TimerRenderCall ==
    /\ MainSteps[timerPc] = "render_scene"
    /\ renderCalls = renderDone
    /\ renderCalls' = renderCalls + 1
    /\ UNCHANGED <<timerPc, now, start_time, end_time, renderDone, timerConsole>>
    /\ UNCHANGED notTimer

\* render_scene(scene) returns.
TimerRenderReturn ==
    /\ MainSteps[timerPc] = "render_scene"
    /\ renderCalls = renderDone + 1
    /\ renderDone' = renderDone + 1
    /\ timerPc' = timerPc + 1
    /\ UNCHANGED <<now, start_time, end_time, renderCalls, timerConsole>>
    /\ UNCHANGED notTimer

\* A step raises: inside the try the handler prints the error and main
\* returns; prepare_output_directory is outside it and the exception leaves main.
TimerRaise ==
    /\ MainSteps[timerPc] \in TryBlock \cup {"prepare_output_directory"}
    /\ MainSteps[timerPc] = "render_scene" => renderCalls = renderDone + 1
    /\ timerConsole' = IF MainSteps[timerPc] \in TryBlock
                       THEN timerConsole \cup {"error"}
                       ELSE timerConsole
    /\ timerPc' = Len(MainSteps)
    /\ UNCHANGED <<now, start_time, end_time, renderCalls, renderDone>>
    /\ UNCHANGED notTimer

\* end_time = time.time() and the two prints that follow
TimerMeasure ==
    /\ MainSteps[timerPc] = "end_time"
    /\ end_time' = now
    /\ timerConsole' = IF OverBudget(now - start_time)
                       THEN timerConsole \cup {"time", "warning"}
                       ELSE timerConsole \cup {"time"}
    /\ timerPc' = timerPc + 1
    /\ UNCHANGED <<now, start_time, renderCalls, renderDone>>
    /\ UNCHANGED notTimer

TimerNext ==
    \/ TimerTick
    \/ TimerStart
    \/ TimerStep
    \/ TimerRenderCall
    \/ TimerRenderReturn
    \/ TimerRaise
    \/ TimerMeasure

\* ========================================================================
\* handson_025: setup_render_settings and its optional settings
\*
\* The host is one that has the engine the script selects; which of the
\* optional settings it supports is left open.

OptionalSettings == {"bloom_intensity", "view_transform", "look"}

\* The statements of setup_render_settings, in order.
RenderSettingSteps ==
    <<"resolution", "film_transparent", "engine", "bloom_intensity", "view_transform",
      "look", "exposure_gamma", "done">>

\* Faulty variant of GuardOf: the look is assigned outside any try.
GuardOfUnguardedLook(setting) ==
    CASE setting = "bloom_intensity" -> "hasattr"
      [] setting = "view_transform" -> "try"
      [] setting = "look" -> "none"

\* How an optional setting is guarded: a hasattr test (silent), or a try
\* with a bare except that prints a note.
GuardOf(setting) ==
    CASE setting = "bloom_intensity" -> "hasattr"
      [] setting = "view_transform" -> "try"
      [] setting = "look" -> "try"

RsInit ==
    /\ rsPc = 1
    /\ rsSupported \in SUBSET OptionalSettings
    /\ rsAttempted = {}
    /\ rsApplied = {}
    /\ rsConsole = {}
    /\ view_settings \in [exposure : {0, 5}, gamma : {10, 22}]
    /\ rsRaised = FALSE

\* resolution, film_transparent (under hasattr) and engine
RsRequired ==
    /\ RenderSettingSteps[rsPc] \in {"resolution", "film_transparent", "engine"}
    /\ rsPc' = rsPc + 1
    /\ UNCHANGED <<rsSupported, rsAttempted, rsApplied, rsConsole, view_settings, rsRaised>>
    /\ UNCHANGED notRs

\* One optional setting: assigned when supported; otherwise skipped by its
\* guard, with a note when the guard is a try.
RsOptional ==
    /\ RenderSettingSteps[rsPc] \in OptionalSettings
    /\ LET setting == RenderSettingSteps[rsPc]
       IN  /\ rsAttempted' = rsAttempted \cup {setting}
           /\ rsApplied' = IF setting \in rsSupported
                           THEN rsApplied \cup {setting} ELSE rsApplied
           /\ rsConsole' = IF setting \notin rsSupported /\ GuardOf(setting) = "try"
                           THEN rsConsole \cup {setting} ELSE rsConsole
           /\ rsRaised' = (setting \notin rsSupported /\ GuardOf(setting) = "none")
           /\ rsPc' = IF setting \notin rsSupported /\ GuardOf(setting) = "none"
                      THEN Len(RenderSettingSteps) ELSE rsPc + 1
    /\ UNCHANGED <<rsSupported, view_settings>>
    /\ UNCHANGED notRs

\* view_settings.exposure = 0.0; view_settings.gamma = 1.0
RsExposureGamma ==
    /\ RenderSettingSteps[rsPc] = "exposure_gamma"
    /\ view_settings' = [exposure |-> 0, gamma |-> 10]
    /\ rsPc' = rsPc + 1
    /\ UNCHANGED <<rsSupported, rsAttempted, rsApplied, rsConsole, rsRaised>>
    /\ UNCHANGED notRs

RsNext ==
    \/ RsRequired
    \/ RsOptional
    \/ RsExposureGamma

\* ========================================================================
\* handson_023: setup_world_background and setup_environment_texture
\*
\* A node is [type, image]; image is "none" but for an environment texture
\* node whose image was loaded.

WorldNode(type) == [type |-> type, image |-> "none"]

\* The node trees the world may hold before the script runs.
PriorWorldTrees ==
    {<<<<>>, {}>>,
     <<(<<WorldNode("ShaderNodeBackground"), WorldNode("ShaderNodeOutputWorld")>>),
       {<<1, 2>>}>>,
     <<(<<WorldNode("ShaderNodeTexSky"), WorldNode("ShaderNodeBackground"),
          WorldNode("ShaderNodeOutputWorld")>>),
       {<<1, 2>>, <<2, 3>>}>>}

\* The statements of the two functions, in order.
EnvSteps ==
    <<"setup_world_background", "test", "new_env_tex", "load", "new_mix", "new_bg",
      "new_output", "link_env_mix", "link_bg_mix", "link_mix_output", "done">>

EnvInit ==
    /\ envPc = 1
    /\ envRun = 1
    /\ envFile \in BOOLEAN
    /\ envLoads \in BOOLEAN
    /\ \E t \in PriorWorldTrees : worldNodes = t[1] /\ worldLinks = t[2]
    /\ envConsole = FALSE
    /\ envRaised = FALSE

\* setup_world_background(): every node is removed, then a background node
\* and an output node are made and linked.
SetupWorldBackground ==
    /\ EnvSteps[envPc] = "setup_world_background"
    /\ worldNodes' = <<WorldNode("ShaderNodeBackground"), WorldNode("ShaderNodeOutputWorld")>>
    /\ worldLinks' = {<<1, 2>>}
    /\ envPc' = envPc + 1
    /\ UNCHANGED <<envRun, envFile, envLoads, envConsole, envRaised>>
    /\ UNCHANGED notEnv

\* if config.use_environment_texture and os.path.exists(...): without the
\* file the function returns at once.
EnvTest ==
    /\ EnvSteps[envPc] = "test"
    /\ envPc' = IF envFile THEN envPc + 1 ELSE Len(EnvSteps)
    /\ UNCHANGED <<envRun, envFile, envLoads, worldNodes, worldLinks, envConsole, envRaised>>
    /\ UNCHANGED notEnv

\* nodes.new(type=...): the four nodes the function makes
EnvNewNode ==
    /\ EnvSteps[envPc] \in {"new_env_tex", "new_mix", "new_bg", "new_output"}
    /\ worldNodes' = Append(worldNodes,
           WorldNode(CASE EnvSteps[envPc] = "new_env_tex" -> "ShaderNodeTexEnvironment"
                       [] EnvSteps[envPc] = "new_mix" -> "ShaderNodeMixShader"
                       [] EnvSteps[envPc] = "new_bg" -> "ShaderNodeBackground"
                       [] EnvSteps[envPc] = "new_output" -> "ShaderNodeOutputWorld"))
    /\ envPc' = envPc + 1
    /\ UNCHANGED <<envRun, envFile, envLoads, worldLinks, envConsole, envRaised>>
    /\ UNCHANGED notEnv

\* try: env_tex.image = bpy.data.images.load(path); except Exception: print
EnvLoad ==
    /\ EnvSteps[envPc] = "load"
    /\ IF envLoads
       THEN /\ worldNodes' = [worldNodes EXCEPT ![Len(worldNodes)].image = "env.hdr"]
            /\ UNCHANGED envConsole
       ELSE /\ envConsole' = TRUE
            /\ UNCHANGED worldNodes
    /\ envPc' = envPc + 1
    /\ UNCHANGED <<envRun, envFile, envLoads, worldLinks, envRaised>>
    /\ UNCHANGED notEnv

\* links.new(...): env_tex is node 3, mix_node 4, bg_node 5, output_node 6
EnvLink ==
    /\ EnvSteps[envPc] \in {"link_env_mix", "link_bg_mix", "link_mix_output"}
    /\ worldLinks' = worldLinks \cup
           {CASE EnvSteps[envPc] = "link_env_mix" -> <<3, 4>>
              [] EnvSteps[envPc] = "link_bg_mix" -> <<5, 4>>
              [] EnvSteps[envPc] = "link_mix_output" -> <<4, 6>>}
    /\ envPc' = envPc + 1
    /\ UNCHANGED <<envRun, envFile, envLoads, worldNodes, envConsole, envRaised>>
    /\ UNCHANGED notEnv

\* The script is run again in the same session: the world keeps its node
\* tree, the file may have appeared, gone or changed.
EnvRunAgain ==
    /\ EnvSteps[envPc] = "done"
    /\ envRun < MaxRuns
    /\ envRun' = envRun + 1
    /\ envPc' = 1
    /\ envFile' \in BOOLEAN
    /\ envLoads' \in BOOLEAN
    /\ envConsole' = FALSE
    /\ UNCHANGED <<worldNodes, worldLinks, envRaised>>
    /\ UNCHANGED notEnv

EnvNext ==
    \/ SetupWorldBackground
    \/ EnvRunAgain
    \/ EnvTest
    \/ EnvNewNode
    \/ EnvLoad
    \/ EnvLink

\* ========================================================================
\* handson_019: create_material and add_materials_to_objects
\*
\* A material is [name, suffix]: suffix 0 is the bare name, suffix n the
\* name with ".00n" that bpy.data.materials.new gives when the name is taken.

ObjectNames == {"Plane", "Cube", "Sphere"}

MaterialNameOf(obj) ==
    CASE obj = "Plane" -> "FloorMaterial"
      [] obj = "Cube" -> "CubeMaterial"
      [] obj = "Sphere" -> "SphereMaterial"

OtherMaterial == [name |-> "Material", suffix |-> 0]

\* create_material(name, base_color): bpy.data.materials.new(name=name)
\* always makes a datablock, under the first free name.
create_material(data, name) ==
    [name |-> name,
     suffix |-> CHOOSE n \in 0 .. Cardinality(data) :
                    /\ [name |-> name, suffix |-> n] \notin data
                    /\ \A k \in 0 .. n - 1 : [name |-> name, suffix |-> k] \in data]

\* if obj.data.materials: materials[0] = mat  else: materials.append(mat)
AssignSlot(slots, mat) ==
    IF slots # <<>> THEN [slots EXCEPT ![1] = mat] ELSE <<mat>>

MatInit ==
    /\ matObjects \in SUBSET ObjectNames
    /\ matData \in {{OtherMaterial}, {OtherMaterial, [name |-> "FloorMaterial", suffix |-> 0]}}
    /\ matSlots \in [ObjectNames -> {<<>>, <<OtherMaterial>>, <<OtherMaterial, OtherMaterial>>}]
    /\ \A o \in ObjectNames \ matObjects : matSlots[o] = <<>>
    /\ matCalls = 0

\* add_materials_to_objects(): for each of the three objects that exists, a
\* material is made and put in slot 0.
AddMaterialsToObjects ==
    /\ matCalls < MaxCalls
    /\ matCalls' = matCalls + 1
    /\ matData' = matData \cup {create_material(matData, MaterialNameOf(o)) : o \in matObjects}
    /\ matSlots' = [o \in ObjectNames |->
                       IF o \in matObjects
                       THEN AssignSlot(matSlots[o], create_material(matData, MaterialNameOf(o)))
                       ELSE matSlots[o]]
    /\ UNCHANGED matObjects
    /\ UNCHANGED notMat

MatNext == AddMaterialsToObjects

\* ========================================================================
\* Pinned values of a sub-model's variables while another one runs

TreeOff ==
    /\ treePc = "off"
    /\ startDepth = 0
    /\ stack = <<>>
    /\ cylinders = 0
    /\ spawned = 0
    /\ rootBranches = 0

RunsOff ==
    /\ script = "handson_001"
    /\ clock = 0
    /\ fs = <<>>
    /\ pc = 0
    /\ run = 0
    /\ outcome = <<>>
    /\ console = {}
    /\ escaped = FALSE
    /\ raised = NoExc
    /\ raisedIn = NoExc
    /\ clobbered = FALSE

LodOff ==
    /\ lodPc = "off"
    /\ lodSettings = <<>>
    /\ sceneCamera = NoCamera
    /\ TARGET = NoObject
    /\ LOD_OBJECTS = <<>>
    /\ hide = <<>>
    /\ chosen = NoObject

ChildOff ==
    /\ childPc = "off"
    /\ childLevel = 0
    /\ direction = <<>>
    /\ angle = <<>>
    /\ rand_vec = <<>>
    /\ perp = <<>>
    /\ new_direction = <<>>

BldOff ==
    /\ bldPc = "off"
    /\ polygons = <<>>
    /\ polyIdx = 0
    /\ window_probability = <<>>
    /\ color_layer = <<>>

CamoOff ==
    /\ camoPc = "off"
    /\ noise_val = <<>>
    /\ color_idx = <<>>

SceneOff ==
    /\ sceneScript = "handson_001"
    /\ scenePc = 0
    /\ initial_objects = {}
    /\ scene_objects = {}
    /\ scene_camera = None
    /\ designated = None
    /\ started = FALSE
    /\ lateDeleted = {}
    /\ render_camera = NotRendered

NodesOff ==
    /\ node_groups = <<>>
    /\ materials = <<>>
    /\ nodeCalls = <<>>

TotemOff ==
    /\ totemPc = 0
    /\ totemConfig = <<>>
    /\ totem = <<>>

PathOff ==
    /\ pathPc = "off"
    /\ path_duration = 0
    /\ offset_keys = {}
    /\ interpolation = "LINEAR"
    /\ frame_range = <<1, 1>>
    /\ frame_step = 1
    /\ frame_current = 1
    /\ firstRendered = 0
    /\ sampled = <<0, 1>>
    /\ lastSampled = <<0, 1>>

WaveOff ==
    /\ wavePc = 0
    /\ rest_co = <<>>
    /\ co = <<>>

ArrOff ==
    /\ arrPc = "off"
    /\ arrPrior = {}
    /\ arrObjects = {}
    /\ modifiers = <<>>
    /\ instances = {}

StarOff ==
    /\ starPc = "off"
    /\ starCount = 0
    /\ number_cuts_used = -1

AoOff ==
    /\ aoPc = 0
    /\ configEngine = ""
    /\ priorEngine = ""
    /\ sceneEngine = ""
    /\ eevee = <<>>
    /\ aoApplied = FALSE

TimerOff ==
    /\ timerPc = 0
    /\ now = 0
    /\ start_time = -1
    /\ end_time = -1
    /\ renderCalls = 0
    /\ renderDone = 0
    /\ timerConsole = {}

RsOff ==
    /\ rsPc = 0
    /\ rsSupported = {}
    /\ rsAttempted = {}
    /\ rsApplied = {}
    /\ rsConsole = {}
    /\ view_settings = <<>>
    /\ rsRaised = FALSE

EnvOff ==
    /\ envPc = 0
    /\ envRun = 0
    /\ envFile = FALSE
    /\ envLoads = FALSE
    /\ worldNodes = <<>>
    /\ worldLinks = {}
    /\ envConsole = FALSE
    /\ envRaised = FALSE

MatOff ==
    /\ matObjects = {}
    /\ matData = {}
    /\ matSlots = <<>>
    /\ matCalls = 0

\* ========================================================================
\* Specifications

InitSpecRuns == RunsInit /\ LodOff /\ TreeOff /\ ChildOff /\ BldOff /\ CamoOff /\ SceneOff /\
    NodesOff /\ TotemOff /\ PathOff /\ WaveOff /\ ArrOff /\ StarOff /\ AoOff /\
    TimerOff /\ RsOff /\ EnvOff /\ MatOff

SpecRuns ==
    /\ InitSpecRuns
    /\ [][RunsNext]_vars

InitSpecLod == LodInit /\ RunsOff /\ TreeOff /\ ChildOff /\ BldOff /\ CamoOff /\ SceneOff /\
    NodesOff /\ TotemOff /\ PathOff /\ WaveOff /\ ArrOff /\ StarOff /\ AoOff /\
    TimerOff /\ RsOff /\ EnvOff /\ MatOff

SpecLod ==
    /\ InitSpecLod
    /\ [][LodNext]_vars

InitSpecTree == TreeInit /\ RunsOff /\ LodOff /\ ChildOff /\ BldOff /\ CamoOff /\ SceneOff /\
    NodesOff /\ TotemOff /\ PathOff /\ WaveOff /\ ArrOff /\ StarOff /\ AoOff /\
    TimerOff /\ RsOff /\ EnvOff /\ MatOff

SpecTree ==
    /\ InitSpecTree
    /\ [][TreeNext]_vars

\* The scheduling of a sequential program: a step that can be taken is taken.
SpecTreeFair == SpecTree /\ WF_vars(TreeNext)

InitSpecChild == ChildInit /\ RunsOff /\ LodOff /\ TreeOff /\ BldOff /\ CamoOff /\ SceneOff /\
    NodesOff /\ TotemOff /\ PathOff /\ WaveOff /\ ArrOff /\ StarOff /\ AoOff /\
    TimerOff /\ RsOff /\ EnvOff /\ MatOff

SpecChild ==
    /\ InitSpecChild
    /\ [][ChildNext]_vars

InitSpecBuilding == BldInit /\ RunsOff /\ LodOff /\ TreeOff /\ ChildOff /\ CamoOff /\ SceneOff /\
    NodesOff /\ TotemOff /\ PathOff /\ WaveOff /\ ArrOff /\ StarOff /\ AoOff /\
    TimerOff /\ RsOff /\ EnvOff /\ MatOff

SpecBuilding ==
    /\ InitSpecBuilding
    /\ [][BldNext]_vars

InitSpecCamo == CamoInit /\ RunsOff /\ LodOff /\ TreeOff /\ ChildOff /\ BldOff /\ SceneOff /\
    NodesOff /\ TotemOff /\ PathOff /\ WaveOff /\ ArrOff /\ StarOff /\ AoOff /\
    TimerOff /\ RsOff /\ EnvOff /\ MatOff

SpecCamo ==
    /\ InitSpecCamo
    /\ [][CamoNext]_vars

InitSpecScene == SceneInit /\ RunsOff /\ LodOff /\ TreeOff /\ ChildOff /\ BldOff /\ CamoOff /\
    NodesOff /\ TotemOff /\ PathOff /\ WaveOff /\ ArrOff /\ StarOff /\ AoOff /\
    TimerOff /\ RsOff /\ EnvOff /\ MatOff

SpecScene ==
    /\ InitSpecScene
    /\ [][SceneNext]_vars

InitSpecNodes == NodesInit /\ RunsOff /\ LodOff /\ TreeOff /\ ChildOff /\ BldOff /\ CamoOff /\
    SceneOff /\ TotemOff /\ PathOff /\ WaveOff /\ ArrOff /\ StarOff /\ AoOff /\
    TimerOff /\ RsOff /\ EnvOff /\ MatOff

SpecNodes ==
    /\ InitSpecNodes
    /\ [][NodesNext]_vars

InitSpecTotem == TotemInit /\ RunsOff /\ LodOff /\ TreeOff /\ ChildOff /\ BldOff /\ CamoOff /\
    SceneOff /\ NodesOff /\ PathOff /\ WaveOff /\ ArrOff /\ StarOff /\ AoOff /\
    TimerOff /\ RsOff /\ EnvOff /\ MatOff

SpecTotem ==
    /\ InitSpecTotem
    /\ [][TotemNext]_vars

InitSpecPath == PathInit /\ RunsOff /\ LodOff /\ TreeOff /\ ChildOff /\ BldOff /\ CamoOff /\
    SceneOff /\ NodesOff /\ TotemOff /\ WaveOff /\ ArrOff /\ StarOff /\ AoOff /\
    TimerOff /\ RsOff /\ EnvOff /\ MatOff

SpecPath ==
    /\ InitSpecPath
    /\ [][PathNext]_vars

InitSpecWave == WaveInit /\ RunsOff /\ LodOff /\ TreeOff /\ ChildOff /\ BldOff /\ CamoOff /\
    SceneOff /\ NodesOff /\ TotemOff /\ PathOff /\ ArrOff /\ StarOff /\ AoOff /\
    TimerOff /\ RsOff /\ EnvOff /\ MatOff

SpecWave ==
    /\ InitSpecWave
    /\ [][WaveNext]_vars

InitSpecArr == ArrInit /\ RunsOff /\ LodOff /\ TreeOff /\ ChildOff /\ BldOff /\ CamoOff /\ SceneOff /\
    NodesOff /\ TotemOff /\ PathOff /\ WaveOff /\ StarOff /\ AoOff /\ TimerOff /\
    RsOff /\ EnvOff /\ MatOff

SpecArr ==
    /\ InitSpecArr
    /\ [][ArrNext]_vars

InitSpecStar == StarInit /\ RunsOff /\ LodOff /\ TreeOff /\ ChildOff /\ BldOff /\ CamoOff /\
    SceneOff /\ NodesOff /\ TotemOff /\ PathOff /\ WaveOff /\ ArrOff /\ AoOff /\
    TimerOff /\ RsOff /\ EnvOff /\ MatOff

SpecStar ==
    /\ InitSpecStar
    /\ [][StarNext]_vars

InitSpecAo == AoInit /\ RunsOff /\ LodOff /\ TreeOff /\ ChildOff /\ BldOff /\ CamoOff /\ SceneOff /\
    NodesOff /\ TotemOff /\ PathOff /\ WaveOff /\ ArrOff /\ StarOff /\ TimerOff /\
    RsOff /\ EnvOff /\ MatOff

SpecAo ==
    /\ InitSpecAo
    /\ [][AoNext]_vars

InitSpecTimer == TimerInit /\ RunsOff /\ LodOff /\ TreeOff /\ ChildOff /\ BldOff /\ CamoOff /\
    SceneOff /\ NodesOff /\ TotemOff /\ PathOff /\ WaveOff /\ ArrOff /\ StarOff /\
    AoOff /\ RsOff /\ EnvOff /\ MatOff

SpecTimer ==
    /\ InitSpecTimer
    /\ [][TimerNext]_vars

InitSpecRs == RsInit /\ RunsOff /\ LodOff /\ TreeOff /\ ChildOff /\ BldOff /\ CamoOff /\ SceneOff /\
    NodesOff /\ TotemOff /\ PathOff /\ WaveOff /\ ArrOff /\ StarOff /\ AoOff /\
    TimerOff /\ EnvOff /\ MatOff

SpecRs ==
    /\ InitSpecRs
    /\ [][RsNext]_vars

InitSpecEnv == EnvInit /\ RunsOff /\ LodOff /\ TreeOff /\ ChildOff /\ BldOff /\ CamoOff /\ SceneOff /\
    NodesOff /\ TotemOff /\ PathOff /\ WaveOff /\ ArrOff /\ StarOff /\ AoOff /\
    TimerOff /\ RsOff /\ MatOff

SpecEnv ==
    /\ InitSpecEnv
    /\ [][EnvNext]_vars

InitSpecMat == MatInit /\ RunsOff /\ LodOff /\ TreeOff /\ ChildOff /\ BldOff /\ CamoOff /\ SceneOff /\
    NodesOff /\ TotemOff /\ PathOff /\ WaveOff /\ ArrOff /\ StarOff /\ AoOff /\
    TimerOff /\ RsOff /\ EnvOff

SpecMat ==
    /\ InitSpecMat
    /\ [][MatNext]_vars

\* ========================================================================
\* Properties of the runs (SpecRuns)

\* Two runs in a row have both completed: the one just ended and the one before.
TwoRunsDone ==
    /\ pc = 0
    /\ run >= 2
    /\ outcome[run] = "ok"
    /\ outcome[run - 1] = "ok"

\* The render of the previous run is on disk at a path other than the one
\* the latest render is at.
BothRendersOnDisk ==
    \E p \in Paths, q \in Paths : p # q /\ fs[p] = run /\ fs[q] = run - 1

C1_BackupScripts ==
    {"handson_015", "handson_016", "handson_017", "handson_018", "handson_019",
     "handson_020", "handson_021", "handson_022", "handson_023", "handson_024",
     "handson_025"}

\* C1 (as stated): for every script, after two runs in a row against the same
\* output directory both renders exist on disk.
C1_EveryScriptKeepsFirstRender == TwoRunsDone => BothRendersOnDisk

\* C1 (amended): for the scripts handson_015 .. handson_025, after two runs in a
\* row the latest render is at the output path and the render of the run before
\* is at a backup path different from the output path.
C1_BackupScriptsKeepFirstRender ==
    (script \in C1_BackupScripts /\ TwoRunsDone) =>
        /\ fs[OutFixed] = run
        /\ \E p \in Paths \ {OutFixed} : fs[p] = run - 1

C1_Witness ==
    /\ script = "handson_015"
    /\ TwoRunsDone
    /\ fs[OutFixed] = 2
    /\ \E t \in Stamps : fs[<<"bak", t>>] = 1

\* C2: the backup path chosen by a run is never the path of a file that
\* already exists, so no backup rename replaces an earlier backup.
C2_BackupNeverReplacesAFile == ~clobbered

\* Three runs of handson_021, the backups of the second and the third taken
\* within the same second: the second backup rename replaced the first backup.
C2_Witness ==
    /\ script = "handson_021"
    /\ run = 3
    /\ pc = 0
    /\ outcome = <<"ok", "ok", "ok">>
    /\ clobbered
    /\ \A p \in Paths : fs[p] # 1

\* The renders of earlier runs on disk, at the output path or a backup path.
EarlierContents == {fs[p] : p \in Paths \ {TempBlend}} \cap (1 .. run - 1)

\* The output the run found: the latest of them.
FoundOutput == CHOOSE c \in EarlierContents : \A d \in EarlierContents : d <= c

\* C28: in every script that backs up its output, no step of a run, of one
\* that fails after the backup rename included, destroys the output file the
\* run found: after the step its content is at the output path, or at the
\* backup path the run chooses, or still at the backup path it was at.
C28_PreviousOutputSurvives ==
    [][(script \in RenameScripts /\ pc # 0 /\ EarlierContents # {}) =>
          \/ fs'[OutFixed] = FoundOutput
          \/ fs'[BackupPath(script, clock)] = FoundOutput
          \/ \E t \in Stamps :
                 fs[<<"bak", t>>] = FoundOutput /\ fs'[<<"bak", t>>] = FoundOutput]_vars

C28_Witness ==
    /\ script = "handson_021"
    /\ run = 2
    /\ pc = 0
    /\ outcome = <<"ok", "failed", "none">>
    /\ raisedIn = "render"
    /\ fs[OutFixed] = 0
    /\ \E t \in Stamps : fs[<<"bak", t>>] = 1

\* A run of the script has ended, by reaching its end or by an exception.
RunEnded == pc = 0 /\ run >= 1

\* C24: in handson_016 temp.blend is on disk only between the save and the
\* removal that follows the render, so once the script has ended no file
\* temp.blend exists in the working directory.
C24_NoTempBlendAfterTheScript ==
    (script = "handson_016" /\ RunEnded) => fs[TempBlend] = 0

\* A run of handson_016 whose render raised: temp.blend is left behind.
C24_Witness ==
    /\ script = "handson_016"
    /\ RunEnded
    /\ run = 1
    /\ outcome[1] = "failed"
    /\ raisedIn = "render"
    /\ fs[TempBlend] = 1

C10_TryScripts ==
    {"handson_001", "handson_002", "handson_003", "handson_004", "handson_006",
     "handson_007", "handson_008", "handson_009", "handson_010", "handson_011",
     "handson_012", "handson_013", "handson_014"}

RunFailed == pc = 0 /\ run >= 1 /\ outcome[run] = "failed"

\* C10 (as stated): in every script an exception raised anywhere in the body
\* is caught by the top-level handler, which prints a message containing the
\* exception text.
C10_EveryScriptPrintsTheError == RunFailed => <<"error", raised>> \in console

\* C10 (amended): in handson_001 .. handson_014, and in handson_017 for every
\* step after its output backup, an exception is caught by the one handler,
\* which prints a message containing the exception text before the script
\* ends; in the other scripts, and in the backup step of handson_017, the
\* exception leaves the script without any message of the script's own.
C10_HandlerWhereThereIsOne ==
    RunFailed =>
        IF \/ script \in C10_TryScripts
           \/ (script = "handson_017" /\ raisedIn # "backup")
        THEN console = {<<"error", raised>>}
        ELSE console = {} /\ escaped

C10_Witness ==
    /\ RunFailed
    /\ script = "handson_014"
    /\ raisedIn = "render"
    /\ console = {<<"error", raised>>}
    /\ escaped

\* ========================================================================
\* Properties of update_lod (SpecLod)

\* The threshold an object is listed with: 0.0 for the target.
LodThresholdOf(obj) == IF obj = TARGET THEN 0 ELSE LOD_OBJECTS[obj - 1][2]

LodObjects == 1 .. Len(hide)

CameraDistanceSq == LengthSq(VecSub(sceneCamera, TargetLocation))

\* update_lod has returned and the camera has not moved since.
LodUpToDate == lodPc \in {"updated", "rendered"}

\* C3: update_lod selects, among the target (threshold 0) and the entries of
\* LOD_OBJECTS, an object with the largest threshold <= the camera distance,
\* the comparison being inclusive; with thresholds 0/10/20/40, distance 5
\* selects the target, 15 the 10-variant, exactly 20 the 20-variant and 45 the
\* 40-variant.
C3_LargestThresholdWithinDistance ==
    LodUpToDate =>
        /\ chosen \in LodObjects
        /\ LodThresholdOf(chosen) * LodThresholdOf(chosen) <= CameraDistanceSq
        /\ \A o \in LodObjects :
               LodThresholdOf(o) * LodThresholdOf(o) <= CameraDistanceSq
                   => LodThresholdOf(o) <= LodThresholdOf(chosen)
        /\ LOD_OBJECTS = <<(<<2, 10>>), (<<3, 20>>), (<<4, 40>>)>> =>
               /\ CameraDistanceSq = 5 * 5 => chosen = TARGET
               /\ CameraDistanceSq = 15 * 15 => chosen = 2
               /\ CameraDistanceSq = 20 * 20 => chosen = 3
               /\ CameraDistanceSq = 45 * 45 => chosen = 4

C3_Witness ==
    /\ lodPc = "updated"
    /\ lodSettings = MainLodSettings
    /\ sceneCamera = <<12, 16, 0>>
    /\ chosen = 3

\* C4: after update_lod, whatever the number of calls and the camera
\* positions, exactly one object among the target and the LOD variants is
\* visible in viewport and render (the chosen one), and every other one is
\* hidden in both.
C4_ExactlyOneVisible ==
    lodPc \in {"updated", "moved", "rendered"} =>
        /\ Len(hide) = 1 + Len(LOD_OBJECTS)
        /\ chosen \in LodObjects
        /\ hide[chosen] = Visible
        /\ \A o \in LodObjects \ {chosen} : hide[o] = Hidden

C4_Witness ==
    /\ lodPc = "updated"
    /\ Len(LOD_OBJECTS) = 3
    /\ sceneCamera = <<0, 45, 0>>
    /\ chosen = 4
    /\ hide = <<Hidden, Hidden, Hidden, Visible>>

\* The object update_lod would choose with the camera at loc and the entries
\* of LOD_OBJECTS in the order entries.
ChoiceAt(loc, entries) ==
    ChooseLod(SortByThreshold(<<(<<TARGET, 0>>)>> \o entries),
              VecSub(loc, TargetLocation), TARGET)

Orderings(n) == {p \in [1 .. n -> 1 .. n] : \A i, j \in 1 .. n : p[i] = p[j] => i = j}

DistinctThresholds ==
    \A i, j \in 1 .. Len(LOD_OBJECTS) : LOD_OBJECTS[i][2] = LOD_OBJECTS[j][2] => i = j

\* C26: the choice of update_lod is monotone in the distance: a camera
\* location no farther than the present one gives an object of a threshold
\* no larger than that of the object chosen, and one no nearer gives one no
\* smaller; and when the thresholds of LOD_OBJECTS are pairwise distinct the
\* object chosen is the same whatever the order of its entries.
C26_ChoiceMonotoneAndOrderFree ==
    LodUpToDate =>
        /\ \A loc \in CameraLocations :
               LET other == LodThresholdOf(ChoiceAt(loc, LOD_OBJECTS))
                   dsq == LengthSq(VecSub(loc, TargetLocation))
               IN  /\ dsq <= CameraDistanceSq => other <= LodThresholdOf(chosen)
                   /\ dsq >= CameraDistanceSq => other >= LodThresholdOf(chosen)
        /\ DistinctThresholds =>
               \A p \in Orderings(Len(LOD_OBJECTS)) :
                   ChoiceAt(sceneCamera, [i \in 1 .. Len(LOD_OBJECTS) |-> LOD_OBJECTS[p[i]]])
                       = chosen

C26_Witness ==
    /\ lodPc = "updated"
    /\ LOD_OBJECTS = <<(<<2, 40>>), (<<3, 10>>), (<<4, 20>>)>>
    /\ sceneCamera = <<12, 16, 0>>
    /\ chosen = 4

\* C27: with the configuration of main (camera at (10, -10, 10), target at
\* the origin, thresholds 10/20/40) the squared camera distance is 300,
\* between 10^2 and 20^2, so at render time the 50% variant (threshold 10) is
\* the only visible object and the full-detail target is hidden.
C27_MainShowsHalfDetail ==
    (lodPc = "rendered" /\ lodSettings = MainLodSettings
        /\ sceneCamera = MainCameraLocation) =>
        /\ CameraDistanceSq = 300
        /\ 10 * 10 <= CameraDistanceSq /\ CameraDistanceSq < 20 * 20
        /\ chosen = 2
        /\ LOD_OBJECTS[chosen - 1] = <<2, 10>>
        /\ lodSettings[chosen - 1] = <<50, 10>>
        /\ hide[TARGET] = Hidden
        /\ {o \in 1 .. Len(hide) : ~hide[o].render} = {2}
        /\ {o \in 1 .. Len(hide) : ~hide[o].viewport} = {2}

C27_Witness ==
    /\ lodPc = "rendered"
    /\ lodSettings = MainLodSettings
    /\ sceneCamera = MainCameraLocation
    /\ chosen = 2
    /\ hide = <<Hidden, Visible, Hidden, Hidden>>

\* ========================================================================
\* Properties of create_branch (SpecTree, SpecTreeFair)

\* The calls of create_branch that have got past the depth test and have
\* not yet added their cylinder.
PendingBodies ==
    Cardinality({i \in 1 .. Len(stack) : stack[i].at = "enter" /\ stack[i].depth # 0})

\* The calls of create_branch made so far with a depth other than 0.
CallsWithDepth ==
    IF treePc = "init" \/ startDepth = 0 THEN 0 ELSE 1 + spawned

\* C5: create_branch adds exactly one cylinder per call with depth >= 1, and
\* spawns children (2 or 3, each with depth - 1) only when depth > 1; so with
\* depth 2 and a branch count of 2 exactly 3 cylinders are created, and with
\* the root depth 5 the total lies between 31 and 121.
C5_CylinderCount ==
    /\ cylinders + PendingBodies = CallsWithDepth
    /\ \A i \in 1 .. Len(stack) :
           /\ stack[i].todo \in {0} \cup 1 .. 3
           /\ stack[i].todo > 0 => stack[i].depth > 1
           /\ i > 1 => stack[i].depth = stack[i - 1].depth - 1
    /\ treePc = "done" /\ startDepth = 2 /\ rootBranches = 2 => cylinders = 3
    /\ treePc = "done" /\ startDepth = 5 => cylinders \in 31 .. 121

C5_Witness ==
    /\ treePc = "done"
    /\ startDepth = 5
    /\ cylinders = 121

\* C6: create_branch terminates for every starting depth >= 0 and every
\* sequence of random draws, and a call with depth 0 returns without adding
\* a cylinder and without recursing.
C6_Terminates ==
    /\ <>(treePc = "done")
    /\ [](startDepth = 0 => cylinders = 0 /\ spawned = 0 /\ Len(stack) <= 1)

C6_Witness ==
    /\ treePc = "done"
    /\ startDepth = 0
    /\ cylinders = 0
    /\ spawned = 0

\* ========================================================================
\* Properties of the child direction (SpecChild)

\* The axis is perpendicular to the parent direction.
AxisPerpendicular == Dot(perp[1], direction[1]) = 0

\* The child direction has length 1.
ChildIsUnit == Dot(new_direction[1], new_direction[1]) = new_direction[2] * new_direction[2]

\* The cosine of the angle between child and parent is the cosine of the
\* drawn angle: (child . parent) / (|child| |parent|) = cos.
ChildAtDrawnAngle ==
    Dot(new_direction[1], direction[1]) * angle[3]
        = angle[1] * new_direction[2] * direction[2]

\* C7: for every child branch the rotation axis is perpendicular to the
\* parent direction, the child direction has unit length and it makes exactly
\* the drawn angle with the parent direction, for every parent direction and
\* every random vector, the fallback to the world X axis included.
C7_ChildAtDrawnAngle ==
    childPc = "rotated" => AxisPerpendicular /\ ChildIsUnit /\ ChildAtDrawnAngle

\* A child of the root branch, direction (-0.36, 0.48, 0.8), draws the zero
\* vector: the axis falls back to the world X axis, which is not perpendicular
\* to the direction, and the cosine of the angle between the new direction
\* and the direction is 0.82592 instead of the drawn 0.8.
C7_Witness ==
    /\ childPc = "rotated"
    /\ childLevel = 1
    /\ direction = <<(<<-9, 12, 20>>), 25>>
    /\ rand_vec = ZeroVector
    /\ angle = <<4, 3, 5>>
    /\ perp = <<(<<1, 0, 0>>), 1>>
    /\ new_direction = <<(<<-45, -12, 116>>), 125>>
    /\ ~AxisPerpendicular
    /\ ~ChildAtDrawnAngle

\* ========================================================================
\* Properties of the window painting (SpecBuilding)

Painted == 1 .. (polyIdx - 1)

InRange(c, lo, hi) == \A k \in 1 .. 3 : lo[k] <= c[k] /\ c[k] <= hi[k]

\* C8: a polygon with |normal.z| >= 0.5 gets the structural colour
\* (0.05, 0.05, 0.07) and no value is drawn for it; a polygon with
\* |normal.z| < 0.5 is classified by the one value p drawn for it: p > 0.6 a
\* warm lit window, 0.3 < p <= 0.6 a dim cool window, p <= 0.3 the dark colour
\* (0.02, 0.02, 0.03); and all loops of one polygon have the same colour.
C8_WindowClassification ==
    \A i \in Painted :
        LET z == polygons[i]
            p == window_probability[i]
            c == color_layer[i][1]
        IN  /\ \A l \in LoopIndices(i) : color_layer[i][l] = c
            /\ c # NoColor
            /\ c[4] = 100
            /\ (z >= 50 \/ z <= -50) => c = <<5, 5, 7, 100>> /\ p = NoDraw
            /\ (-50 < z /\ z < 50) =>
                   /\ p \in Draws
                   /\ p > 60 => InRange(c, <<90, 70, 20>>, <<100, 90, 50>>)
                   /\ (30 < p /\ p <= 60) => InRange(c, <<50, 50, 70>>, <<80, 80, 90>>)
                   /\ p <= 30 => c = <<2, 2, 3, 100>>

C8_Witness ==
    /\ bldPc = "material"
    /\ polygons = <<50, 49>>
    /\ window_probability = <<NoDraw, 60>>
    /\ color_layer[1][4] = <<5, 5, 7, 100>>
    /\ color_layer[2][4] = <<80, 50, 90, 100>>

\* ========================================================================
\* Properties of the palette index (SpecCamo)

\* C9: with the 4 colours of the palette the index of a loop is
\* int((noise + 1) * 4 / 2) mod 4: it is one of 0 .. 3; for a noise value in
\* [-1.0, 1.0) it is the number of whole halves in noise + 1; the noise value
\* -1.0 gives 0, 0.0 gives 2, and +1.0 wraps to 0.
C9_PaletteIndex ==
    \A i \in 1 .. Len(color_idx) :
        LET k == noise_val[i]
            idx == color_idx[i]
        IN  /\ idx \in 0 .. 3
            /\ (-NoiseDen <= k /\ k < NoiseDen) =>
                   /\ idx * NoiseDen <= 2 * (k + NoiseDen)
                   /\ 2 * (k + NoiseDen) < (idx + 1) * NoiseDen
            /\ k = -NoiseDen => idx = 0
            /\ k = 0 => idx = 2
            /\ k = NoiseDen => idx = 0

C9_Witness ==
    /\ camoPc = "painted"
    /\ noise_val = <<-NoiseDen, 0, NoiseDen>>
    /\ color_idx = <<0, 2, 0>>

\* C29: apply_vertex_paint never indexes outside the palette: for every noise
\* value, those beyond -1 and 1 that noise_at can return included, the
\* colour index lies in 0 .. len(colors) - 1.
C29_IndexWithinPalette ==
    \A i \in 1 .. Len(color_idx) :
        /\ color_idx[i] >= 0
        /\ color_idx[i] <= Len(CamoColors) - 1

C29_Witness ==
    /\ camoPc = "painted"
    /\ noise_val[1] = (7 * NoiseDen) \div 6
    /\ noise_val[2] = -((7 * NoiseDen) \div 6)
    /\ noise_val[1] > NoiseDen
    /\ color_idx[1] = 0
    /\ color_idx[2] = 0

\* ========================================================================
\* Properties of the scene preparation (SpecScene)

Rendered == render_camera # NotRendered

\* C11: in every script, when the render operation is invoked scene.camera is
\* the camera the script created or designated, whatever the scene held
\* before the script ran.
C11_RenderUsesTheScriptsCamera ==
    Rendered => designated # None /\ render_camera = designated

\* handson_017 on a scene whose active camera is named Cam2 and which has no
\* object named Camera: the script creates a camera and renders from Cam2.
C11_Witness ==
    /\ sceneScript = "handson_017"
    /\ initial_objects = {Obj("pre_cam2", "CAMERA", "Cam2", 0, 0)}
    /\ Rendered
    /\ designated = "new_camera"
    /\ render_camera = "pre_cam2"

InitializeSceneDone == sceneScript = "handson_017" /\ scenePc >= 6

BlocksNamed(coll, name) == {i \in 1 .. Len(coll) : coll[i].name[1] = name}

\* The one data-block of that requested name.
TheBlock(coll, name) == coll[CHOOSE i \in BlocksNamed(coll, name) : TRUE]

\* Exactly one material of that name, holding the given graph.
OneMaterial(name, nodes, links) ==
    /\ Cardinality(BlocksNamed(materials, name)) = 1
    /\ TheBlock(materials, name).name = <<name, 0>>
    /\ TheBlock(materials, name).nodes = nodes
    /\ TheBlock(materials, name).links = links

\* C13: after any number (>= 1) of calls of create_custom_node_group there is
\* exactly one node group named CustomEmissionGroup, with exactly the inputs
\* 'Input Color' and 'Strength', the output 'Shader', three nodes and three
\* links, the state one call leaves; and after any number of calls of the
\* floor, normal and emission material constructors there is exactly one
\* material of each name, with the one graph the constructor builds.
C13_ConstructorsAreIdempotent ==
    /\ nodeCalls["create_custom_node_group"] >= 1 =>
           /\ Cardinality(BlocksNamed(node_groups, "CustomEmissionGroup")) = 1
           /\ LET g == TheBlock(node_groups, "CustomEmissionGroup")
              IN  /\ g.name = <<"CustomEmissionGroup", 0>>
                  /\ {g.interface[k] : k \in 1 .. Len(g.interface)}
                         = {<<"Input Color", "INPUT">>, <<"Strength", "INPUT">>,
                            <<"Shader", "OUTPUT">>}
                  /\ Len(g.interface) = 3
                  /\ g.nodes = <<"NodeGroupInput", "ShaderNodeEmission", "NodeGroupOutput">>
                  /\ Len(g.links) = 3
                  /\ Cardinality({g.links[k] : k \in 1 .. Len(g.links)}) = 3
    /\ nodeCalls["create_floor_material"] >= 1 =>
           OneMaterial("FloorMaterial",
                       <<"ShaderNodeBsdfPrincipled", "ShaderNodeOutputMaterial">>,
                       <<(<<"BSDF", "Surface">>)>>)
    /\ nodeCalls["create_normal_material"] >= 1 =>
           OneMaterial("NormalMaterial",
                       <<"ShaderNodeBsdfPrincipled", "ShaderNodeOutputMaterial">>,
                       <<(<<"BSDF", "Surface">>)>>)
    /\ nodeCalls["create_material_with_custom_group"] >= 1 =>
           OneMaterial("CustomEmissionMaterial",
                       <<"ShaderNodeOutputMaterial", "ShaderNodeGroup">>,
                       <<(<<"Shader", "Surface">>)>>)

C13_Witness ==
    /\ nodeCalls = [f \in Constructors |-> 3]
    /\ Len(node_groups) = 1
    /\ node_groups[1].name = <<"CustomEmissionGroup", 0>>
    /\ Len(node_groups[1].nodes) = 3
    /\ Len(materials) = 4

\* ========================================================================
\* Properties of the totem pole (SpecTotem)

Assembled == totemPc = Len(AssembleSteps)

\* Z of a part's world location minus Z of the base's
ZOffsetFromBase(part) == WorldLocation(totem, part)[3] - WorldLocation(totem, "base")[3]

\* C14: after assemble_totem_pole the head, beak, both wings, the mid-face
\* and the bottom figure have the base as parent and the base has none; the
\* head's Z offset from the base's origin is base_depth + head_depth/2 (3.25
\* for 3.0 and 0.5) and the bottom figure's is bottom_depth/2.
C14_TotemAssembled ==
    Assembled =>
        /\ \A p \in TotemParts \ {"base"} : totem[p].parent = "base"
        /\ totem["base"].parent = None
        /\ 2 * ZOffsetFromBase("head") = 2 * totemConfig.base_depth + totemConfig.head_depth
        /\ 2 * ZOffsetFromBase("bottom") = totemConfig.bottom_depth
        /\ (totemConfig.base_depth = 300 /\ totemConfig.head_depth = 50)
               => ZOffsetFromBase("head") = 325

C14_Witness ==
    /\ Assembled
    /\ totemConfig.base_depth = 300
    /\ totemConfig.head_depth = 50
    /\ totem["head"].parent = "base"
    /\ ZOffsetFromBase("head") = 325

\* ========================================================================
\* Properties of the follow-path animation (SpecPath)

\* a <= b for fractions of one denominator, or with a denominator of 1
FractionLeq(a, b) == IF a[2] = b[2] THEN a[1] <= b[1] ELSE a[1] * b[2] <= b[1] * a[2]

\* |a - 1/2| <= 1/100
AboutHalf(a) ==
    /\ (2 * a[1] - a[2]) * 50 <= a[2]
    /\ (a[2] - 2 * a[1]) * 50 <= a[2]

\* C15: offset_factor is keyframed 0.0 at frame 1 and 1.0 at frame 300 and at
\* no other frame; the rendered frame range is exactly 1..300, the curve's
\* path_duration; from one rendered frame to the next the factor never
\* decreases, and under linear interpolation it is about 0.5 at frame 150.
C15_OffsetFactorAnimation ==
    /\ pathPc \in {"settings", "render", "done"} =>
           offset_keys = {<<1, 0>>, <<300, 1>>}
    /\ pathPc = "settings" =>
           /\ AboutHalf(Evaluate(offset_keys, "LINEAR", 150))
           /\ \A f \in 1 .. 299 :
                  FractionLeq(Evaluate(offset_keys, interpolation, f),
                              Evaluate(offset_keys, interpolation, f + 1))
    /\ pathPc \in {"render", "done"} =>
           /\ frame_range = <<1, 300>>
           /\ frame_range[2] = path_duration
           /\ FractionLeq(lastSampled, sampled)
           /\ firstRendered # 0 => firstRendered = 1 /\ frame_current \in 1 .. 300
    /\ pathPc = "done" => frame_current + frame_step > 300

C15_Witness ==
    /\ pathPc = "done"
    /\ interpolation = "LINEAR"
    /\ frame_step = 1
    /\ frame_current = 300
    /\ sampled = <<1, 1>>
    /\ lastSampled[1] > 0
    /\ lastSampled[1] < lastSampled[2]

\* ========================================================================
\* Properties of the sine displacement (SpecWave)

\* C16: a vertex the loop has visited is untouched when it was at z = z_top
\* (+1) or z = z_bottom (-1); every other one has amplitude * sin(pi * (z -
\* z_bottom) / height) added to its z and keeps its x and y; the displacement
\* is 0 at the bottom and at most 0.2, reached at mid-height.
C16_SineDisplacement ==
    \A v \in 1 .. wavePc :
        LET z == rest_co[v][3]
            quarter == (4 * (z + 10000)) \div 20000
        IN  /\ co[v][1] = rest_co[v][1]
            /\ co[v][2] = rest_co[v][2]
            /\ z \in {10000, -10000} => co[v] = rest_co[v]
            /\ z \notin {10000, -10000} =>
                   co[v][3] = z + (2000 * SinQuarters[quarter + 1]) \div 10000
            /\ co[v][3] - z <= 2000
            /\ z = 0 => co[v][3] - z = 2000
            /\ z = -10000 => co[v][3] - z = 0

C16_Witness ==
    /\ wavePc = NumVertices
    /\ rest_co[1][3] = 0
    /\ co[1][3] = 2000
    /\ rest_co[2][3] = 10000
    /\ co[2] = rest_co[2]

\* ========================================================================
\* Properties of the array modifiers (SpecArr)

\* C17: the one base cube carries exactly two array modifiers, Array_X (count
\* 8, relative offset 1.5 on X only) then Array_Y (count 4, relative offset
\* 1.5 on Y only); the second acts on the output of the first, so the rendered
\* mesh holds 8 * 4 = 32 cubes, one per cell of an 8 by 4 grid, while the
\* scene holds one mesh object.
C17_ArrayModifiers ==
    /\ arrPc \in {"render_image", "done"} =>
           /\ Len(modifiers) = 2
           /\ modifiers[1].name = "Array_X" /\ modifiers[1].count = 8
           /\ modifiers[1].relative_offset_displace = <<3, 0, 0>>
           /\ modifiers[2].name = "Array_Y" /\ modifiers[2].count = 4
           /\ modifiers[2].relative_offset_displace = <<0, 3, 0>>
           /\ \A i \in 1 .. 2 : modifiers[i].type = "ARRAY" /\ modifiers[i].use_relative_offset
           /\ Cardinality({o \in arrObjects : o[2] = "MESH"}) = 1
    /\ arrPc = "done" =>
           /\ Cardinality(instances) = 8 * 4
           /\ instances = {<<3 * i, 3 * j, 0>> : i \in 0 .. 7, j \in 0 .. 3}

C17_Witness ==
    /\ arrPc = "done"
    /\ Cardinality(instances) = 32
    /\ <<"Plane", "MESH">> \in arrPrior
    /\ Len(modifiers) = 2

\* ========================================================================
\* Properties of the star plane (SpecStar)

\* C18 as stated: the number of cuts is ceil(sqrt(num_stars)) - 1, that is
\* the c with c^2 < num_stars <= (c + 1)^2.
C18_CutsAreCeilOfRootLessOne ==
    starPc = "done" =>
        /\ number_cuts_used * number_cuts_used < starCount
        /\ starCount <= (number_cuts_used + 1) * (number_cuts_used + 1)

\* C18, amended: the number of cuts is floor(sqrt(num_stars)) - 1, that is
\* the c with (c + 1)^2 <= num_stars < (c + 2)^2; it is 69 for the configured
\* 5000, and it is ceil(sqrt(num_stars)) - 1 exactly when num_stars is a
\* perfect square.
C18_CutsAreFloorOfRootLessOne ==
    starPc = "done" =>
        /\ (number_cuts_used + 1) * (number_cuts_used + 1) <= starCount
        /\ starCount < (number_cuts_used + 2) * (number_cuts_used + 2)
        /\ starCount = 5000 => number_cuts_used = 69
        /\ (number_cuts_used * number_cuts_used < starCount
              /\ starCount <= (number_cuts_used + 1) * (number_cuts_used + 1))
               <=> (\E r \in 1 .. starCount : r * r = starCount)

C18_Witness ==
    /\ starPc = "done"
    /\ starCount = 5000
    /\ number_cuts_used = 69

\* ========================================================================
\* Properties of the ambient occlusion setup (SpecAo)

SetupDone == aoPc = Len(SetupSteps)

\* C20: after the setup steps of full_main the ambient-occlusion settings are
\* applied if and only if config.render_engine is BLENDER_EEVEE, whatever
\* engine the scene had before the script ran.
C20_AoFollowsConfiguredEngine ==
    SetupDone => (aoApplied <=> configEngine = "BLENDER_EEVEE")

C20_Witness ==
    /\ SetupDone
    /\ configEngine = "BLENDER_EEVEE"
    /\ sceneEngine = "BLENDER_EEVEE"
    /\ priorEngine = "CYCLES"
    /\ ~aoApplied
    /\ ~eevee.use_gtao

\* C30: the subdivided plane, a grid of (cuts + 2) by (cuts + 2) vertices, has
\* at least num_stars vertices for every num_stars >= 1, and 5041 for the
\* configured 5000.
C30_AtLeastNumStarsVertices ==
    starPc = "done" =>
        /\ (number_cuts_used + 2) * (number_cuts_used + 2) >= starCount
        /\ starCount = 5000 => (number_cuts_used + 2) * (number_cuts_used + 2) = 5041

C30_Witness ==
    /\ starPc = "done"
    /\ starCount = 5000
    /\ (number_cuts_used + 2) * (number_cuts_used + 2) = 5041

\* ========================================================================
\* Properties of the execution-time warning (SpecTimer)

\* C21: whenever the time measured from the start to the end of the run
\* exceeds 10 seconds the warning is printed, and only then; the measurement
\* is taken only after the render call has returned; the render is called at
\* most once and, once called, is left to return or raise by itself.
C21_WarningAfterTheRender ==
    /\ end_time # -1 =>
           /\ renderDone = 1
           /\ "time" \in timerConsole
           /\ ("warning" \in timerConsole) <=> (end_time - start_time > 10)
    /\ end_time = -1 => "warning" \notin timerConsole
    /\ renderCalls <= 1
    /\ renderDone <= renderCalls

C21_Witness ==
    /\ timerPc = Len(MainSteps)
    /\ end_time - start_time = 11
    /\ renderDone = 1
    /\ "warning" \in timerConsole

\* ========================================================================
\* Properties of setup_render_settings (SpecRs)

RsReturned == rsPc = Len(RenderSettingSteps)

\* C22: each optional setting (bloom intensity, view transform, look) is
\* guarded on its own: whichever of them the host does not support is
\* skipped, the others are still attempted and the supported ones assigned,
\* exposure and gamma are set, and the function does not raise.
C22_OptionalSettingsIndependent ==
    RsReturned =>
        /\ ~rsRaised
        /\ rsAttempted = {"bloom_intensity", "view_transform", "look"}
        /\ rsApplied = rsSupported
        /\ view_settings = [exposure |-> 0, gamma |-> 10]

C22_Witness ==
    /\ RsReturned
    /\ rsSupported = {"look"}
    /\ rsApplied = {"look"}
    /\ rsConsole = {"view_transform"}
    /\ ~rsRaised
    /\ view_settings.gamma = 10

\* ========================================================================
\* Properties of the environment texture setup (SpecEnv)

EnvReturned == envPc = Len(EnvSteps)

\* Node n feeds an output node of the world, directly or through one node.
FeedsWorldOutput(n) ==
    \E o \in 1 .. Len(worldNodes) :
        /\ worldNodes[o].type = "ShaderNodeOutputWorld"
        /\ \/ <<n, o>> \in worldLinks
           \/ \E m \in 1 .. Len(worldNodes) : <<n, m>> \in worldLinks /\ <<m, o>> \in worldLinks

\* C23: setup_environment_texture never raises, and whenever the texture is
\* unavailable (the file is missing, or loading it fails) the world output is
\* driven by the background network of setup_world_background only: no
\* environment texture node feeds an output node of the world.
C23_NoTextureNoTextureNode ==
    EnvReturned =>
        /\ ~envRaised
        /\ (~envFile \/ ~envLoads) =>
               \A n \in 1 .. Len(worldNodes) :
                   worldNodes[n].type = "ShaderNodeTexEnvironment" => ~FeedsWorldOutput(n)

\* The file is there and loading it failed: the texture node, without an
\* image, feeds a second output node through the mix shader.
C23_Witness ==
    /\ EnvReturned
    /\ envFile
    /\ ~envLoads
    /\ envConsole
    /\ ~envRaised
    /\ Len(worldNodes) = 6
    /\ worldNodes[3] = [type |-> "ShaderNodeTexEnvironment", image |-> "none"]
    /\ worldNodes[6].type = "ShaderNodeOutputWorld"
    /\ {<<3, 4>>, <<4, 6>>} \subseteq worldLinks

\* ========================================================================
\* Properties of the material assignment (SpecMat)

MaterialsNamed(name) == {m \in matData : m.name = name}

\* C25: the material assignment is idempotent: however often it is called,
\* there is exactly one material made for each of the names FloorMaterial,
\* CubeMaterial and SphereMaterial, and each object has exactly one
\* material, of its name, in slot 0.
C25_OneMaterialPerName ==
    matCalls >= 1 =>
        \A o \in matObjects :
            /\ Cardinality(MaterialsNamed(MaterialNameOf(o))) = 1
            /\ matSlots[o] # <<>>
            /\ matSlots[o][1] \in MaterialsNamed(MaterialNameOf(o))

\* Two calls with the three objects there: each name has two materials, the
\* second under a suffixed name, and slot 0 holds the second.
C25_Witness ==
    /\ matCalls = 2
    /\ matObjects = ObjectNames
    /\ \A o \in ObjectNames :
           /\ [name |-> MaterialNameOf(o), suffix |-> 1] \in matData
           /\ Cardinality(MaterialsNamed(MaterialNameOf(o))) >= 2
           /\ Len(matSlots[o]) = 1
           /\ matSlots[o][1].suffix >= 1

====
